---- MODULE Spec2Model ----
(***************************************************************************)
(* littlefs-wasm: the C glue (RAM block device, session, directory handle  *)
(* pool, whole-file read/write) and the TypeScript wrapper (LittleFSImpl,  *)
(* createLittleFS, createLittleFSFromImage) around the littlefs engine.    *)
(*                                                                         *)
(* The C statics are the variables of the model.  Every exported C         *)
(* function is an operator from the record M of the statics to a record    *)
(* [M, ret, ...]; every TypeScript method is an operator that threads a    *)
(* host record H (the statics, the wasm heap and the trace of raw calls)   *)
(* through the raw calls it makes.  An action applies one of them.         *)
(*                                                                         *)
(* The littlefs engine (lfs.c, fetched by scripts/build-wasm.mjs at tag    *)
(* v2.9.3) is not part of the repository.  It is modelled by its public    *)
(* contract: the status codes of enum lfs_error in lfs.h, path lookup,     *)
(* and a metadata image it keeps in the block device through the           *)
(* read/prog/erase callbacks.  The byte layout of that image is an         *)
(* abstraction (one injective encoding of the tree stands for the          *)
(* engine's own); nothing below depends on which encoding it is.           *)
(***************************************************************************)
EXTENDS Integers, Sequences, FiniteSets, TLC

\* ------------------------------------------------------------------------
\* Program constants
\* ------------------------------------------------------------------------
DEFAULT_BLOCK_SIZE == 4096
DEFAULT_BLOCK_COUNT == 256
DEFAULT_LOOKAHEAD == 32
DEFAULT_DISK_VERSION == 0
MAX_DIRS == 8

\* 0x00020000 and 0x00020001
DISK_VERSION_2_0 == 131072
DISK_VERSION_2_1 == 131073
\* LFS_DISK_VERSION of the engine: the version lfs_format writes when
\* cfg.disk_version is 0
LFS_DISK_VERSION == 131073

\* enum lfs_error of the engine's lfs.h
LFS_ERR_OK == 0
LFS_ERR_IO == -5
LFS_ERR_CORRUPT == -84
LFS_ERR_NOENT == -2
LFS_ERR_EXIST == -17
LFS_ERR_NOTDIR == -20
LFS_ERR_ISDIR == -21
LFS_ERR_NOTEMPTY == -39
LFS_ERR_INVAL == -22
LFS_ERR_NOSPC == -28
LFS_ERR_NOMEM == -12

\* lfs_info.type values and the type codes the glue hands to the host
LFS_TYPE_REG == 1
LFS_TYPE_DIR == 2

\* ------------------------------------------------------------------------
\* Bounds of the model
\* ------------------------------------------------------------------------
\* The fault oracle: in one operation at most one engine call fails, the i-th
\* call of one engine function, i in 1..MaxFaultPos.
MaxFaultPos == 3
\* Raw dir_open is offered while fewer than this many slots are in use.
MaxRawOpen == 1

\* ------------------------------------------------------------------------
\* uint32_t arithmetic (16-bit limbs: the products never leave the range
\* of the checker's integers)
\* ------------------------------------------------------------------------
Mul16(x, y) ==
    LET p0 == x * (y % 256)
        p1 == x * (y \div 256)
        s  == (p1 % 256) * 256 + p0
    IN  [hi |-> ((p1 \div 256) + (s \div 65536)) % 65536, lo |-> s % 65536]

\* a * b modulo 2^32
Mul32(a, b) ==
    LET al == a % 65536
        ah == a \div 65536
        bl == b % 65536
        bh == b \div 65536
        low == Mul16(al, bl)
        c == (((ah * bl) % 65536) + ((al * bh) % 65536)) % 65536
    IN  ((low.hi + c) % 65536) * 65536 + low.lo

\* a + b modulo 2^32
Add32(a, b) ==
    LET lo == (a % 65536) + (b % 65536)
        hi == ((a \div 65536) + (b \div 65536) + (lo \div 65536)) % 65536
    IN  hi * 65536 + (lo % 65536)

\* K applied to the value v: v is computed once and named by K's parameter
Bind(v, K(_)) == K(v)

Min(a, b) == IF a < b THEN a ELSE b
Max(a, b) == IF a > b THEN a ELSE b

\* ------------------------------------------------------------------------
\* Strings: a string is a tuple of one-character strings
\* ------------------------------------------------------------------------
CodeOf ==
    ("/" :> 47) @@ ("." :> 46) @@ ("a" :> 97) @@ ("d" :> 100) @@ ("f" :> 102)
    @@ ("l" :> 108) @@ ("s" :> 115) @@ ("x" :> 120)

CharOf(b) == CHOOSE c \in DOMAIN CodeOf : CodeOf[c] = b

RECURSIVE SeqSum(_)
SeqSum(s) == IF s = <<>> THEN 0 ELSE Head(s) + SeqSum(Tail(s))

RECURSIVE Concat(_)
Concat(ss) == IF ss = <<>> THEN <<>> ELSE Head(ss) \o Concat(Tail(ss))

\* the split of a path at '/', empty components dropped (the engine's path
\* walk skips runs of slashes)
Components(path) ==
    LET starts == {i \in 1..Len(path) : path[i] # "/" /\ (i = 1 \/ path[i - 1] = "/")}
        last_of(s) == CHOOSE e \in s..Len(path) :
                          /\ \A j \in s..e : path[j] # "/"
                          /\ e = Len(path) \/ path[e + 1] = "/"
        nth(k) == CHOOSE s \in starts : Cardinality({t \in starts : t < s}) = k - 1
    IN  [k \in 1..Cardinality(starts) |-> SubSeq(path, nth(k), last_of(nth(k)))]

\* memcmp order of two names, the order the engine keeps a directory in
RECURSIVE NameLess(_, _)
NameLess(a, b) ==
    IF b = <<>> THEN FALSE
    ELSE IF a = <<>> THEN TRUE
    ELSE IF CodeOf[Head(a)] # CodeOf[Head(b)] THEN CodeOf[Head(a)] < CodeOf[Head(b)]
    ELSE NameLess(Tail(a), Tail(b))

RECURSIVE SortNames(_)
SortNames(S) ==
    IF S = {} THEN <<>>
    ELSE LET m == CHOOSE x \in S : \A y \in S \ {x} : NameLess(x, y)
         IN  <<m>> \o SortNames(S \ {m})

\* ------------------------------------------------------------------------
\* The RAM block device.  ram_storage is [null, mem]: mem holds the bytes
\* other than 0xFF as pairs <<address, byte>>; every other byte of the
\* buffer is 0xFF.
\* ------------------------------------------------------------------------
NullStorage == [null |-> TRUE, mem |-> {}]

StoreByte(mem, a) ==
    IF \E p \in mem : p[1] = a THEN (CHOOSE p \in mem : p[1] = a)[2] ELSE 255

\* memcpy out of the buffer
ReadRange(mem, addr, n) == [i \in 1..n |-> StoreByte(mem, addr + i - 1)]

\* memcpy into the buffer
WriteRange(mem, addr, bytes) ==
    {p \in mem : p[1] < addr \/ p[1] >= addr + Len(bytes)}
    \cup {<<addr + i - 1, bytes[i]>> : i \in {j \in 1..Len(bytes) : bytes[j] # 255}}

\* memset(.., 0xFF, n)
FillRange(mem, addr, n) == {p \in mem : p[1] < addr \/ p[1] >= addr + n}

ram_read(M, block, off, size) ==
    IF M.ram_storage.null THEN [ret |-> LFS_ERR_IO, data |-> <<>>]
    ELSE LET addr == Add32(Mul32(block, M.cfg.block_size), off)
         IN  IF Add32(addr, size) > M.storage_size
             THEN [ret |-> LFS_ERR_IO, data |-> <<>>]
             ELSE [ret |-> 0, data |-> ReadRange(M.ram_storage.mem, addr, size)]

ram_prog(M, block, off, bytes) ==
    IF M.ram_storage.null THEN [ret |-> LFS_ERR_IO, M |-> M]
    ELSE LET addr == Add32(Mul32(block, M.cfg.block_size), off)
         IN  IF Add32(addr, Len(bytes)) > M.storage_size
             THEN [ret |-> LFS_ERR_IO, M |-> M]
             ELSE [ret |-> 0,
                   M |-> [M EXCEPT !.ram_storage.mem = WriteRange(@, addr, bytes)]]

ram_erase(M, block) ==
    IF M.ram_storage.null THEN [ret |-> LFS_ERR_IO, M |-> M]
    ELSE LET addr == Mul32(block, M.cfg.block_size)
         IN  IF Add32(addr, M.cfg.block_size) > M.storage_size
             THEN [ret |-> LFS_ERR_IO, M |-> M]
             ELSE [ret |-> 0,
                   M |-> [M EXCEPT !.ram_storage.mem = FillRange(@, addr, M.cfg.block_size)]]

ram_sync(M) == [ret |-> 0, M |-> M]

\* ------------------------------------------------------------------------
\* The engine's tree: a set of entries [path, type, data]; a path is the
\* tuple of its names, the root is <<>> and has no entry.
\* ------------------------------------------------------------------------
Exists(tree, p) == \E e \in tree : e.path = p
Lookup(tree, p) == CHOOSE e \in tree : e.path = p
IsPrefix(p, q) == Len(p) <= Len(q) /\ SubSeq(q, 1, Len(p)) = p
Children(tree, p) == {e \in tree : Len(e.path) = Len(p) + 1 /\ IsPrefix(p, e.path)}
ChildNames(tree, p) == SortNames({e.path[Len(e.path)] : e \in Children(tree, p)})
IsDirAt(tree, p) == p = <<>> \/ (Exists(tree, p) /\ Lookup(tree, p).type = LFS_TYPE_DIR)

\* lfs_dir_find: 0 when the path names an entry (or the root), NOENT when a
\* name is missing, NOTDIR when a name before the last is a file
Find(tree, comps) ==
    LET stops == {i \in 1..Len(comps) :
                     \/ ~Exists(tree, SubSeq(comps, 1, i))
                     \/ i < Len(comps) /\ Lookup(tree, SubSeq(comps, 1, i)).type # LFS_TYPE_DIR}
    IN  IF stops = {} THEN 0
        ELSE IF Exists(tree, SubSeq(comps, 1, CHOOSE i \in stops : \A j \in stops : i <= j))
        THEN LFS_ERR_NOTDIR
        ELSE LFS_ERR_NOENT

\* the parent directory of a missing last name exists
ParentOk(tree, comps) ==
    comps # <<>> /\ Find(tree, SubSeq(comps, 1, Len(comps) - 1)) = 0
    /\ IsDirAt(tree, SubSeq(comps, 1, Len(comps) - 1))

\* the entries in the order the image lists them: a directory, then its
\* subtree, names in directory order
RECURSIVE PreOrder(_, _, _)
PreOrder(tree, p, names) ==
    IF names = <<>> THEN <<>>
    ELSE LET e == Lookup(tree, Append(p, Head(names)))
         IN  <<e>>
             \o (IF e.type = LFS_TYPE_DIR
                 THEN PreOrder(tree, e.path, ChildNames(tree, e.path))
                 ELSE <<>>)
             \o PreOrder(tree, p, Tail(names))

\* ------------------------------------------------------------------------
\* The metadata image in block 0: a superblock (magic, version, block size,
\* block count) and the entries, ended by an erased byte.
\* ------------------------------------------------------------------------
Enc32(n) == <<n % 256, (n \div 256) % 256, (n \div 65536) % 256, n \div 16777216>>
\* (a field of 2^31 or more, which no configuration of the model holds, reads
\* as 2^31 - 1)
Dec32(b) ==
    IF b[4] > 127 THEN 2147483647
    ELSE b[1] + 256 * b[2] + 65536 * b[3] + 16777216 * b[4]

EncName(name) == <<Len(name)>> \o [i \in 1..Len(name) |-> CodeOf[name[i]]]

EncEntry(e) ==
    <<e.type, Len(e.path)>>
    \o Concat([i \in 1..Len(e.path) |-> EncName(e.path[i])])
    \o (IF e.type = LFS_TYPE_REG THEN <<Len(e.data)>> \o e.data ELSE <<>>)

EncodeImage(tree, version, bs, bc) ==
    <<76, version \div 65536, version % 65536>> \o Enc32(bs) \o Enc32(bc)
    \o (LET es == PreOrder(tree, <<>>, ChildNames(tree, <<>>))
        IN  Concat([i \in 1..Len(es) |-> EncEntry(es[i])]))

\* one byte of block 0 through the read callback; -1 when the read fails
ByteAt(M, pos) ==
    IF pos >= M.cfg.block_size THEN -1
    ELSE Bind(ram_read(M, 0, pos, 1), LAMBDA r : IF r.ret < 0 THEN -1 ELSE r.data[1])

IsCode(b) == \E c \in DOMAIN CodeOf : CodeOf[c] = b

RECURSIVE ParseChars(_, _, _, _)
ParseChars(M, pos, n, acc) ==
    IF n = 0 THEN [ret |-> 0, name |-> acc]
    ELSE IF ~IsCode(ByteAt(M, pos)) THEN [ret |-> LFS_ERR_CORRUPT, name |-> <<>>]
    ELSE ParseChars(M, pos + 1, n - 1, Append(acc, CharOf(ByteAt(M, pos))))

RECURSIVE ParseNames(_, _, _, _)
ParseNames(M, pos, k, acc) ==
    IF k = 0 THEN [ret |-> 0, path |-> acc, next |-> pos]
    ELSE Bind(ByteAt(M, pos), LAMBDA n :
         IF n < 1 THEN [ret |-> LFS_ERR_CORRUPT, path |-> <<>>, next |-> pos]
         ELSE Bind(ParseChars(M, pos + 1, n, <<>>), LAMBDA c :
              IF c.ret < 0 THEN [ret |-> LFS_ERR_CORRUPT, path |-> <<>>, next |-> pos]
              ELSE ParseNames(M, pos + 1 + n, k - 1, Append(acc, c.name))))

RECURSIVE ParseBytes(_, _, _, _)
ParseBytes(M, pos, n, acc) ==
    IF n = 0 THEN [ret |-> 0, data |-> acc]
    ELSE IF ByteAt(M, pos) < 0 THEN [ret |-> LFS_ERR_CORRUPT, data |-> <<>>]
    ELSE ParseBytes(M, pos + 1, n - 1, Append(acc, ByteAt(M, pos)))

RECURSIVE ParseEntries(_, _, _)
RECURSIVE ParseFile(_, _, _, _)
ParseFile(M, path, pos, acc) ==
    Bind(ByteAt(M, pos), LAMBDA n :
    IF n < 0 \/ n = 255 THEN [ret |-> LFS_ERR_CORRUPT, tree |-> {}]
    ELSE Bind(ParseBytes(M, pos + 1, n, <<>>), LAMBDA d :
         IF d.ret < 0 THEN [ret |-> LFS_ERR_CORRUPT, tree |-> {}]
         ELSE ParseEntries(M, pos + 1 + n,
                  acc \cup {[path |-> path, type |-> LFS_TYPE_REG, data |-> d.data]})))

ParseEntries(M, pos, acc) ==
    Bind(ByteAt(M, pos), LAMBDA t :
    IF t = 255 THEN [ret |-> 0, tree |-> acc]
    ELSE IF t \notin {LFS_TYPE_REG, LFS_TYPE_DIR} \/ ByteAt(M, pos + 1) < 1
    THEN [ret |-> LFS_ERR_CORRUPT, tree |-> {}]
    ELSE Bind(ParseNames(M, pos + 2, ByteAt(M, pos + 1), <<>>), LAMBDA pn :
         IF pn.ret < 0 THEN [ret |-> LFS_ERR_CORRUPT, tree |-> {}]
         ELSE IF t = LFS_TYPE_DIR
         THEN ParseEntries(M, pn.next,
                  acc \cup {[path |-> pn.path, type |-> t, data |-> <<>>]})
         ELSE ParseFile(M, pn.path, pn.next, acc)))

\* the superblock and the tree as the engine reads them from the device
DecodeHeader(M, h) ==
    Bind(ParseEntries(M, 11, {}), LAMBDA es :
    IF es.ret < 0 THEN [ret |-> es.ret, tree |-> {}, version |-> 0, bs |-> 0, bc |-> 0]
    ELSE [ret |-> 0, tree |-> es.tree,
          version |-> h.data[2] * 65536 + h.data[3],
          bs |-> Dec32(SubSeq(h.data, 4, 7)),
          bc |-> Dec32(SubSeq(h.data, 8, 11))])

DecodeImage(M) ==
    Bind(ram_read(M, 0, 0, 11), LAMBDA h :
    IF h.ret < 0 THEN [ret |-> h.ret, tree |-> {}, version |-> 0, bs |-> 0, bc |-> 0]
    ELSE IF h.data[1] # 76
    THEN [ret |-> LFS_ERR_CORRUPT, tree |-> {}, version |-> 0, bs |-> 0, bc |-> 0]
    ELSE DecodeHeader(M, h))

\* ------------------------------------------------------------------------
\* The engine's operations.  M.lfs is the engine's lfs_t: the tree of the
\* mounted filesystem and the version of its superblock.  flt is 0, or the
\* status the call fails with before it changes anything (no space for a
\* commit, a corrupted block on a read).
\* ------------------------------------------------------------------------
NoLfs == [tree |-> {}, version |-> 0]

\* the version a commit leaves in the superblock
CommitVersion(M) ==
    IF M.cfg.disk_version # 0 THEN M.lfs.version ELSE Max(M.lfs.version, LFS_DISK_VERSION)

\* one metadata commit: erase block 0 and program the new image
Commit(M, tree, version) ==
    Bind(EncodeImage(tree, version, M.cfg.block_size, M.cfg.block_count), LAMBDA bytes :
    IF Len(bytes) >= M.cfg.block_size THEN [M |-> M, ret |-> LFS_ERR_NOSPC]
    ELSE Bind(ram_erase(M, 0), LAMBDA e :
         IF e.ret < 0 THEN [M |-> M, ret |-> e.ret]
         ELSE Bind(ram_prog(e.M, 0, 0, bytes), LAMBDA p :
              IF p.ret < 0 THEN [M |-> e.M, ret |-> p.ret]
              ELSE [M |-> [p.M EXCEPT !.lfs = [tree |-> tree, version |-> version]],
                    ret |-> 0])))

lfs_format(M, flt) ==
    IF flt # 0 THEN [M |-> M, ret |-> flt]
    ELSE Bind(ram_erase(M, 1), LAMBDA e1 :
         IF e1.ret < 0 THEN [M |-> M, ret |-> e1.ret]
         ELSE Bind(Commit(e1.M, {},
                          IF M.cfg.disk_version # 0 THEN M.cfg.disk_version
                          ELSE LFS_DISK_VERSION),
                   LAMBDA c : [M |-> [c.M EXCEPT !.lfs = NoLfs], ret |-> c.ret]))

lfs_mount(M, flt) ==
    IF flt # 0 THEN [M |-> M, ret |-> flt]
    ELSE Bind(DecodeImage(M), LAMBDA d :
         IF d.ret < 0 THEN [M |-> M, ret |-> d.ret]
         ELSE IF d.version \div 65536 # LFS_DISK_VERSION \div 65536
                 \/ d.version > LFS_DISK_VERSION
                 \/ (M.cfg.disk_version # 0 /\ d.version > M.cfg.disk_version)
                 \/ d.bs # M.cfg.block_size \/ d.bc # M.cfg.block_count
         THEN [M |-> M, ret |-> LFS_ERR_INVAL]
         ELSE [M |-> [M EXCEPT !.lfs = [tree |-> d.tree, version |-> d.version]],
               ret |-> 0])

lfs_unmount(M, flt) ==
    IF flt # 0 THEN [M |-> M, ret |-> flt]
    ELSE [M |-> [M EXCEPT !.lfs = NoLfs], ret |-> 0]

lfs_mkdir(M, path, flt) ==
    LET comps == Components(path)
        f == Find(M.lfs.tree, comps)
    IN  IF f = 0 THEN [M |-> M, ret |-> LFS_ERR_EXIST]
        ELSE IF ~ParentOk(M.lfs.tree, comps) THEN [M |-> M, ret |-> f]
        ELSE IF flt # 0 THEN [M |-> M, ret |-> flt]
        ELSE Commit(M, M.lfs.tree \cup {[path |-> comps, type |-> LFS_TYPE_DIR, data |-> <<>>]},
                    CommitVersion(M))

lfs_remove(M, path, flt) ==
    LET comps == Components(path)
        f == Find(M.lfs.tree, comps)
    IN  IF f < 0 THEN [M |-> M, ret |-> f]
        ELSE IF comps = <<>> THEN [M |-> M, ret |-> LFS_ERR_INVAL]
        ELSE IF Children(M.lfs.tree, comps) # {} THEN [M |-> M, ret |-> LFS_ERR_NOTEMPTY]
        ELSE IF flt # 0 THEN [M |-> M, ret |-> flt]
        ELSE Commit(M, {e \in M.lfs.tree : e.path # comps}, CommitVersion(M))

lfs_stat(M, path, flt) ==
    LET comps == Components(path)
        f == Find(M.lfs.tree, comps)
        none == [type |-> 0, size |-> 0]
    IN  IF flt # 0 THEN [ret |-> flt] @@ none
        ELSE IF f < 0 THEN [ret |-> f] @@ none
        ELSE IF comps = <<>> THEN [ret |-> 0, type |-> LFS_TYPE_DIR, size |-> 0]
        ELSE [ret |-> 0, type |-> Lookup(M.lfs.tree, comps).type,
              size |-> Len(Lookup(M.lfs.tree, comps).data)]

\* the entries of the subtree at old, moved to new
Moved(tree, old, new) ==
    {[path |-> new \o SubSeq(e.path, Len(old) + 1, Len(e.path)),
      type |-> e.type, data |-> e.data] : e \in {x \in tree : IsPrefix(old, x.path)}}

lfs_rename(M, oldpath, newpath, flt) ==
    LET oc == Components(oldpath)
        nc == Components(newpath)
        t == M.lfs.tree
        fo == Find(t, oc)
        fn == Find(t, nc)
    IN  IF fo < 0 THEN [M |-> M, ret |-> fo]
        ELSE IF oc = <<>> \/ nc = <<>> THEN [M |-> M, ret |-> LFS_ERR_INVAL]
        ELSE IF fn < 0 /\ ~ParentOk(t, nc) THEN [M |-> M, ret |-> fn]
        ELSE IF fn = 0 /\ Lookup(t, nc).type # Lookup(t, oc).type
        THEN [M |-> M, ret |-> IF Lookup(t, nc).type = LFS_TYPE_DIR
                               THEN LFS_ERR_ISDIR ELSE LFS_ERR_NOTDIR]
        ELSE IF oc = nc THEN [M |-> M, ret |-> 0]
        ELSE IF fn = 0 /\ Children(t, nc) # {} THEN [M |-> M, ret |-> LFS_ERR_NOTEMPTY]
        ELSE IF flt # 0 THEN [M |-> M, ret |-> flt]
        ELSE Commit(M, {e \in t : ~IsPrefix(oc, e.path) /\ e.path # nc} \cup Moved(t, oc, nc),
                    CommitVersion(M))

\* a directory cursor (lfs_dir_t): the directory and the position in it
NoDir == [path |-> <<>>, pos |-> 0]

lfs_dir_open(M, path, flt) ==
    LET comps == Components(path)
        f == Find(M.lfs.tree, comps)
    IN  IF f < 0 THEN [ret |-> f, dir |-> NoDir]
        ELSE IF ~IsDirAt(M.lfs.tree, comps) THEN [ret |-> LFS_ERR_NOTDIR, dir |-> NoDir]
        ELSE IF flt # 0 THEN [ret |-> flt, dir |-> NoDir]
        ELSE [ret |-> 0, dir |-> [path |-> comps, pos |-> 0]]

NoInfo == [name |-> <<>>, type |-> 0, size |-> 0]

\* lfs_dir_read: ".", "..", then the entries in directory order; 0 at the end
lfs_dir_read(M, dir, flt) ==
    LET names == ChildNames(M.lfs.tree, dir.path)
        next == [dir EXCEPT !.pos = @ + 1]
    IN  IF flt # 0 THEN [ret |-> flt, info |-> NoInfo, dir |-> dir]
        ELSE IF dir.pos = 0
        THEN [ret |-> 1, info |-> [name |-> <<".">>, type |-> LFS_TYPE_DIR, size |-> 0], dir |-> next]
        ELSE IF dir.pos = 1
        THEN [ret |-> 1, info |-> [name |-> <<".", ".">>, type |-> LFS_TYPE_DIR, size |-> 0], dir |-> next]
        ELSE IF dir.pos - 1 > Len(names) THEN [ret |-> 0, info |-> NoInfo, dir |-> dir]
        ELSE LET e == Lookup(M.lfs.tree, Append(dir.path, names[dir.pos - 1]))
             IN  [ret |-> 1,
                  info |-> [name |-> names[dir.pos - 1], type |-> e.type, size |-> Len(e.data)],
                  dir |-> next]

lfs_dir_close(M, dir, flt) == [ret |-> flt]

\* an open file (lfs_file_t): its path, the bytes buffered for it, whether a
\* write failed (the engine then skips the sync at close)
NoFile == [path |-> <<>>, buf |-> <<>>, erred |-> FALSE, wr |-> FALSE]

\* lfs_file_open(LFS_O_WRONLY | LFS_O_CREAT | LFS_O_TRUNC): a missing file is
\* created (committed, empty) at open; an existing one is truncated in the
\* buffer, the device keeps its bytes until the sync at close
lfs_file_open_w(M, path, flt) ==
    LET comps == Components(path)
        f == Find(M.lfs.tree, comps)
        file == [path |-> comps, buf |-> <<>>, erred |-> FALSE, wr |-> TRUE]
    IN  IF comps = <<>> \/ (f = 0 /\ IsDirAt(M.lfs.tree, comps))
        THEN [M |-> M, ret |-> LFS_ERR_ISDIR, file |-> NoFile]
        ELSE IF f < 0 /\ ~ParentOk(M.lfs.tree, comps) THEN [M |-> M, ret |-> f, file |-> NoFile]
        ELSE IF flt # 0 THEN [M |-> M, ret |-> flt, file |-> NoFile]
        ELSE IF f = 0 THEN [M |-> M, ret |-> 0, file |-> file]
        ELSE Bind(Commit(M, M.lfs.tree
                            \cup {[path |-> comps, type |-> LFS_TYPE_REG, data |-> <<>>]},
                         CommitVersion(M)),
                  LAMBDA c : [M |-> c.M, ret |-> c.ret,
                              file |-> IF c.ret < 0 THEN NoFile ELSE file])

\* lfs_file_open(LFS_O_RDONLY)
lfs_file_open_r(M, path, flt) ==
    LET comps == Components(path)
        f == Find(M.lfs.tree, comps)
    IN  IF f < 0 THEN [M |-> M, ret |-> f, file |-> NoFile]
        ELSE IF IsDirAt(M.lfs.tree, comps) THEN [M |-> M, ret |-> LFS_ERR_ISDIR, file |-> NoFile]
        ELSE IF flt # 0 THEN [M |-> M, ret |-> flt, file |-> NoFile]
        ELSE [M |-> M, ret |-> 0,
              file |-> [path |-> comps, buf |-> Lookup(M.lfs.tree, comps).data,
                        erred |-> FALSE, wr |-> FALSE]]

\* lfs_file_write of the whole payload: buffered, or failed
lfs_file_write(M, file, data, flt) ==
    IF flt # 0 THEN [ret |-> flt, file |-> [file EXCEPT !.erred = TRUE]]
    ELSE [ret |-> Len(data), file |-> [file EXCEPT !.buf = data]]

\* lfs_file_read of at most max bytes from the start
lfs_file_read(M, file, max, flt) ==
    IF flt # 0 THEN [ret |-> flt, data |-> <<>>]
    ELSE [ret |-> Min(max, Len(file.buf)), data |-> SubSeq(file.buf, 1, Min(max, Len(file.buf)))]

\* lfs_file_close: the sync of a written file commits its bytes
lfs_file_close(M, file, flt) ==
    IF ~file.wr \/ file.erred THEN [M |-> M, ret |-> 0]
    ELSE IF flt # 0 THEN [M |-> M, ret |-> flt]
    ELSE Commit(M, {e \in M.lfs.tree : e.path # file.path}
                   \cup {[path |-> file.path, type |-> LFS_TYPE_REG, data |-> file.buf]},
                CommitVersion(M))

\* lfs_fs_size: the blocks in use (a metadata pair for the root and for every
\* directory; the files of the model are inline)
lfs_fs_size(M, flt) ==
    IF flt # 0 THEN flt
    ELSE 2 + 2 * Cardinality({e \in M.lfs.tree : e.type = LFS_TYPE_DIR})

\* lfs_fs_stat: the version of the superblock on the device
lfs_fs_stat(M, flt) ==
    IF flt # 0 THEN [ret |-> flt, disk_version |-> 0]
    ELSE [ret |-> 0, disk_version |-> M.lfs.version]

\* ------------------------------------------------------------------------
\* The exported C functions.  H carries the statics M, the fault oracle k
\* (the engine call that fails in the running operation), the trace of the
\* engine calls made so far, and the host's view of the wasm heap.
\* ------------------------------------------------------------------------
ZeroCfg ==
    [read_size |-> 0, prog_size |-> 0, block_size |-> 0, block_count |-> 0,
     cache_size |-> 0, lookahead_size |-> 0, block_cycles |-> 0, disk_version |-> 0]

\* no engine call fails
NoFault == [fn |-> "none", i |-> 0]

\* the calls of fn in a trace
Occurrences(calls, fn) == Cardinality({j \in 1..Len(calls) : calls[j].fn = fn})

\* the status the next call of the engine function fn fails with, 0 when it
\* does not fail: H.k names the call that fails, the i-th one of a function
Flt(H, fn, code) ==
    IF H.k.fn = fn /\ Occurrences(H.calls, fn) + 1 = H.k.i THEN code ELSE 0

\* one engine call made: counted and traced, the statics as it left them
Called(H, M, fn, arg, ret) ==
    [H EXCEPT !.M = M, !.calls = Append(@, [fn |-> fn, arg |-> arg, ret |-> ret])]

lfs_wasm_set_disk_version(H, version) ==
    [H |-> [H EXCEPT !.M.disk_version = version], ret |-> 0]

lfs_wasm_get_disk_version(H) == [H |-> H, ret |-> H.M.disk_version]

\* if (ram_storage) { if (mounted) { lfs_unmount; mounted = 0; } free; }
FreeExisting(H) ==
    IF H.M.ram_storage.null THEN H
    ELSE IF H.M.mounted
    THEN Bind(lfs_unmount(H.M, Flt(H, "lfs_unmount", LFS_ERR_IO)), LAMBDA u :
              Called(H, [u.M EXCEPT !.mounted = FALSE, !.ram_storage = NullStorage],
                     "lfs_unmount", <<>>, u.ret))
    ELSE [H EXCEPT !.M.ram_storage = NullStorage]

\* memset(&cfg, 0, ..) and the fields set after it
NewCfg(bs, bc, la) ==
    [read_size |-> 1, prog_size |-> 1, block_size |-> bs, block_count |-> bc,
     cache_size |-> bs, lookahead_size |-> la, block_cycles |-> 500, disk_version |-> 0]

NoSlots == [i \in 0..(MAX_DIRS - 1) |-> FALSE]
NoDirs == [i \in 0..(MAX_DIRS - 1) |-> NoDir]

\* lfs_wasm_init without the memset of dir_in_use
lfs_wasm_init_keeps_slots(H, blk_size, blk_count, lookahead, oom) ==
    LET bs == IF blk_size > 0 THEN blk_size ELSE DEFAULT_BLOCK_SIZE
        bc == IF blk_count > 0 THEN blk_count ELSE DEFAULT_BLOCK_COUNT
        la == IF lookahead > 0 THEN lookahead ELSE DEFAULT_LOOKAHEAD
    IN  Bind([FreeExisting(H) EXCEPT !.M.block_size = bs, !.M.block_count = bc,
                                     !.M.storage_size = Mul32(bs, bc)],
             LAMBDA S :
             IF oom THEN [H |-> S, ret |-> LFS_ERR_NOMEM]
             ELSE [H |-> [S EXCEPT !.M.ram_storage = [null |-> FALSE, mem |-> {}],
                                   !.M.cfg = NewCfg(bs, bc, la)],
                   ret |-> 0])

\* oom: the malloc of the store fails
lfs_wasm_init(H, blk_size, blk_count, lookahead, oom) ==
    LET bs == IF blk_size > 0 THEN blk_size ELSE DEFAULT_BLOCK_SIZE
        bc == IF blk_count > 0 THEN blk_count ELSE DEFAULT_BLOCK_COUNT
        la == IF lookahead > 0 THEN lookahead ELSE DEFAULT_LOOKAHEAD
    IN  Bind([FreeExisting(H) EXCEPT !.M.block_size = bs, !.M.block_count = bc,
                                     !.M.storage_size = Mul32(bs, bc)],
             LAMBDA S :
             IF oom THEN [H |-> S, ret |-> LFS_ERR_NOMEM]
             ELSE [H |-> [S EXCEPT !.M.ram_storage = [null |-> FALSE, mem |-> {}],
                                   !.M.dir_in_use = NoSlots, !.M.open_dirs = NoDirs,
                                   !.M.cfg = NewCfg(bs, bc, la)],
                   ret |-> 0])

\* lfs_wasm_init_from_image taking the default block count, as lfs_wasm_init
\* does, instead of deriving it from the image's length
lfs_wasm_init_from_image_defaultcount(H, image, blk_size, blk_count, lookahead, oom) ==
    LET bs == IF blk_size > 0 THEN blk_size ELSE DEFAULT_BLOCK_SIZE
        bc == IF blk_count > 0 THEN blk_count ELSE DEFAULT_BLOCK_COUNT
        la == IF lookahead > 0 THEN lookahead ELSE DEFAULT_LOOKAHEAD
        size == Mul32(bs, bc)
        copy_size == IF image.len < size THEN image.len ELSE size
    IN  Bind([FreeExisting(H) EXCEPT !.M.block_size = bs, !.M.block_count = bc,
                                     !.M.storage_size = size],
             LAMBDA S :
             IF size = 0 \/ bc = 0 THEN [H |-> S, ret |-> LFS_ERR_INVAL]
             ELSE IF oom THEN [H |-> S, ret |-> LFS_ERR_NOMEM]
             ELSE [H |-> [S EXCEPT !.M.ram_storage =
                                       [null |-> FALSE,
                                        mem |-> {p \in image.mem : p[1] < copy_size}],
                                   !.M.dir_in_use = NoSlots, !.M.open_dirs = NoDirs,
                                   !.M.cfg = NewCfg(bs, bc, la)],
                   ret |-> 0])

\* lfs_wasm_init_from_image rounding the block count up to cover the image
lfs_wasm_init_from_image_roundup(H, image, blk_size, blk_count, lookahead, oom) ==
    LET bs == IF blk_size > 0 THEN blk_size ELSE DEFAULT_BLOCK_SIZE
        bc == IF blk_count > 0 THEN blk_count ELSE (image.len + bs - 1) \div bs
        la == IF lookahead > 0 THEN lookahead ELSE DEFAULT_LOOKAHEAD
        size == Mul32(bs, bc)
        copy_size == IF image.len < size THEN image.len ELSE size
    IN  Bind([FreeExisting(H) EXCEPT !.M.block_size = bs, !.M.block_count = bc,
                                     !.M.storage_size = size],
             LAMBDA S :
             IF size = 0 \/ bc = 0 THEN [H |-> S, ret |-> LFS_ERR_INVAL]
             ELSE IF oom THEN [H |-> S, ret |-> LFS_ERR_NOMEM]
             ELSE [H |-> [S EXCEPT !.M.ram_storage =
                                       [null |-> FALSE,
                                        mem |-> {p \in image.mem : p[1] < copy_size}],
                                   !.M.dir_in_use = NoSlots, !.M.open_dirs = NoDirs,
                                   !.M.cfg = NewCfg(bs, bc, la)],
                   ret |-> 0])

\* image is [len, mem]: the bytes at image, image_size = image.len
lfs_wasm_init_from_image(H, image, blk_size, blk_count, lookahead, oom) ==
    LET bs == IF blk_size > 0 THEN blk_size ELSE DEFAULT_BLOCK_SIZE
        bc == IF blk_count > 0 THEN blk_count ELSE image.len \div bs
        la == IF lookahead > 0 THEN lookahead ELSE DEFAULT_LOOKAHEAD
        size == Mul32(bs, bc)
        copy_size == IF image.len < size THEN image.len ELSE size
    IN  Bind([FreeExisting(H) EXCEPT !.M.block_size = bs, !.M.block_count = bc,
                                     !.M.storage_size = size],
             LAMBDA S :
             IF size = 0 \/ bc = 0 THEN [H |-> S, ret |-> LFS_ERR_INVAL]
             ELSE IF oom THEN [H |-> S, ret |-> LFS_ERR_NOMEM]
             ELSE [H |-> [S EXCEPT !.M.ram_storage =
                                       [null |-> FALSE,
                                        mem |-> {p \in image.mem : p[1] < copy_size}],
                                   !.M.dir_in_use = NoSlots, !.M.open_dirs = NoDirs,
                                   !.M.cfg = NewCfg(bs, bc, la)],
                   ret |-> 0])

lfs_wasm_get_fs_info(H) ==
    IF ~H.M.mounted THEN [H |-> H, ret |-> LFS_ERR_INVAL, version |-> 0]
    ELSE Bind(lfs_fs_stat(H.M, Flt(H, "lfs_fs_stat", LFS_ERR_CORRUPT)), LAMBDA r :
              [H |-> Called(H, H.M, "lfs_fs_stat", <<>>, r.ret),
               ret |-> IF r.ret < 0 THEN r.ret ELSE 0, version |-> r.disk_version])

lfs_wasm_mount(H) ==
    IF H.M.ram_storage.null THEN [H |-> H, ret |-> LFS_ERR_INVAL]
    ELSE IF H.M.mounted THEN [H |-> H, ret |-> 0]
    ELSE Bind(lfs_mount(H.M, Flt(H, "lfs_mount", LFS_ERR_CORRUPT)), LAMBDA r :
              [H |-> Called(H, [r.M EXCEPT !.mounted = (r.ret = 0)], "lfs_mount", <<>>, r.ret),
               ret |-> r.ret])

\* lfs_wasm_unmount clearing the flag whatever the engine returns
lfs_wasm_unmount_always(H) ==
    IF ~H.M.mounted THEN [H |-> H, ret |-> 0]
    ELSE Bind(lfs_unmount(H.M, Flt(H, "lfs_unmount", LFS_ERR_IO)), LAMBDA r :
              [H |-> Called(H, [r.M EXCEPT !.mounted = FALSE], "lfs_unmount", <<>>, r.ret),
               ret |-> r.ret])

lfs_wasm_unmount(H) ==
    IF ~H.M.mounted THEN [H |-> H, ret |-> 0]
    ELSE Bind(lfs_unmount(H.M, Flt(H, "lfs_unmount", LFS_ERR_IO)), LAMBDA r :
              [H |-> Called(H, [r.M EXCEPT !.mounted = ~(r.ret = 0)], "lfs_unmount", <<>>, r.ret),
               ret |-> r.ret])

\* if (mounted) { lfs_unmount(&lfs); mounted = 0; }
UnmountFirst(H) ==
    IF H.M.mounted
    THEN Bind(lfs_unmount(H.M, Flt(H, "lfs_unmount", LFS_ERR_IO)), LAMBDA u :
              Called(H, [u.M EXCEPT !.mounted = FALSE], "lfs_unmount", <<>>, u.ret))
    ELSE H

lfs_wasm_format(H) ==
    IF H.M.ram_storage.null THEN [H |-> H, ret |-> LFS_ERR_INVAL]
    ELSE Bind(UnmountFirst(H), LAMBDA U :
         Bind(lfs_format(U.M, Flt(U, "lfs_format", LFS_ERR_NOSPC)), LAMBDA r :
              [H |-> Called(U, r.M, "lfs_format", <<>>, r.ret), ret |-> r.ret]))

\* lfs_wasm_mkdir without its first line, the test of mounted
lfs_wasm_mkdir_unguarded(H, path) ==
    Bind(lfs_mkdir(H.M, path, Flt(H, "lfs_mkdir", LFS_ERR_NOSPC)), LAMBDA r :
         [H |-> Called(H, r.M, "lfs_mkdir", path, r.ret), ret |-> r.ret])

lfs_wasm_mkdir(H, path) ==
    IF ~H.M.mounted THEN [H |-> H, ret |-> LFS_ERR_INVAL]
    ELSE Bind(lfs_mkdir(H.M, path, Flt(H, "lfs_mkdir", LFS_ERR_NOSPC)), LAMBDA r :
              [H |-> Called(H, r.M, "lfs_mkdir", path, r.ret), ret |-> r.ret])

lfs_wasm_remove(H, path) ==
    IF ~H.M.mounted THEN [H |-> H, ret |-> LFS_ERR_INVAL]
    ELSE Bind(lfs_remove(H.M, path, Flt(H, "lfs_remove", LFS_ERR_NOSPC)), LAMBDA r :
              [H |-> Called(H, r.M, "lfs_remove", path, r.ret), ret |-> r.ret])

lfs_wasm_rename(H, oldpath, newpath) ==
    IF ~H.M.mounted THEN [H |-> H, ret |-> LFS_ERR_INVAL]
    ELSE Bind(lfs_rename(H.M, oldpath, newpath, Flt(H, "lfs_rename", LFS_ERR_NOSPC)), LAMBDA r :
              [H |-> Called(H, r.M, "lfs_rename", oldpath, r.ret), ret |-> r.ret])

\* out_type and out_size are written on success only
lfs_wasm_stat(H, path) ==
    IF ~H.M.mounted THEN [H |-> H, ret |-> LFS_ERR_INVAL, wrote |-> FALSE, type |-> 0, size |-> 0]
    ELSE Bind(lfs_stat(H.M, path, Flt(H, "lfs_stat", LFS_ERR_CORRUPT)), LAMBDA r :
         IF r.ret < 0
         THEN [H |-> Called(H, H.M, "lfs_stat", path, r.ret), ret |-> r.ret,
               wrote |-> FALSE, type |-> 0, size |-> 0]
         ELSE [H |-> Called(H, H.M, "lfs_stat", path, r.ret), ret |-> 0, wrote |-> TRUE,
               type |-> IF r.type = LFS_TYPE_DIR THEN 2 ELSE 1, size |-> r.size])

\* the scan taking the last free slot instead of the first
FreeSlot_last(M) ==
    IF \E i \in 0..(MAX_DIRS - 1) : ~M.dir_in_use[i]
    THEN CHOOSE i \in 0..(MAX_DIRS - 1) :
             ~M.dir_in_use[i] /\ \A j \in (i + 1)..(MAX_DIRS - 1) : M.dir_in_use[j]
    ELSE -1

\* the first free slot, -1 when all are in use
FreeSlot(M) ==
    IF \E i \in 0..(MAX_DIRS - 1) : ~M.dir_in_use[i]
    THEN CHOOSE i \in 0..(MAX_DIRS - 1) :
             ~M.dir_in_use[i] /\ \A j \in 0..(i - 1) : M.dir_in_use[j]
    ELSE -1

lfs_wasm_dir_open(H, path) ==
    IF ~H.M.mounted THEN [H |-> H, ret |-> LFS_ERR_INVAL]
    ELSE Bind(FreeSlot(H.M), LAMBDA slot :
         IF slot < 0 THEN [H |-> H, ret |-> LFS_ERR_NOMEM]
         ELSE Bind(lfs_dir_open(H.M, path, Flt(H, "lfs_dir_open", LFS_ERR_CORRUPT)), LAMBDA r :
              IF r.ret < 0
              THEN [H |-> Called(H, H.M, "lfs_dir_open", path, r.ret), ret |-> r.ret]
              ELSE [H |-> Called(H, [H.M EXCEPT !.open_dirs[slot] = r.dir,
                                                !.dir_in_use[slot] = TRUE],
                                 "lfs_dir_open", path, r.ret),
                    ret |-> slot]))

\* lfs_wasm_dir_read without the test for "." and "..": every entry the
\* engine returns is handed to the caller
lfs_wasm_dir_read_noskip(H, handle) ==
    IF handle < 0 \/ handle >= MAX_DIRS \/ ~H.M.dir_in_use[handle]
    THEN [H |-> H, ret |-> LFS_ERR_INVAL, info |-> NoInfo]
    ELSE Bind(lfs_dir_read(H.M, H.M.open_dirs[handle], Flt(H, "lfs_dir_read", LFS_ERR_CORRUPT)), LAMBDA r :
         IF r.ret <= 0
         THEN [H |-> Called(H, [H.M EXCEPT !.open_dirs[handle] = r.dir],
                            "lfs_dir_read", <<handle>>, r.ret),
               ret |-> r.ret, info |-> NoInfo]
         ELSE [H |-> Called(H, [H.M EXCEPT !.open_dirs[handle] = r.dir],
                            "lfs_dir_read", <<handle>>, r.ret),
               ret |-> 1,
               info |-> [name |-> r.info.name,
                         type |-> IF r.info.type = LFS_TYPE_DIR THEN 2 ELSE 1,
                         size |-> r.info.size]])

\* the entry is written to the output parameters when 1 is returned
RECURSIVE lfs_wasm_dir_read(_, _)
lfs_wasm_dir_read(H, handle) ==
    IF handle < 0 \/ handle >= MAX_DIRS \/ ~H.M.dir_in_use[handle]
    THEN [H |-> H, ret |-> LFS_ERR_INVAL, info |-> NoInfo]
    ELSE Bind(lfs_dir_read(H.M, H.M.open_dirs[handle], Flt(H, "lfs_dir_read", LFS_ERR_CORRUPT)), LAMBDA r :
         CASE r.ret <= 0 ->
                  [H |-> Called(H, [H.M EXCEPT !.open_dirs[handle] = r.dir],
                                "lfs_dir_read", <<handle>>, r.ret),
                   ret |-> r.ret, info |-> NoInfo]
           [] r.ret > 0 /\ r.info.name \in {<<".">>, <<".", ".">>} ->
                  lfs_wasm_dir_read(Called(H, [H.M EXCEPT !.open_dirs[handle] = r.dir],
                                           "lfs_dir_read", <<handle>>, r.ret),
                                    handle)
           [] OTHER ->
                  [H |-> Called(H, [H.M EXCEPT !.open_dirs[handle] = r.dir],
                                "lfs_dir_read", <<handle>>, r.ret),
                   ret |-> 1,
                   info |-> [name |-> r.info.name,
                             type |-> IF r.info.type = LFS_TYPE_DIR THEN 2 ELSE 1,
                             size |-> r.info.size]])

\* lfs_wasm_dir_close releasing the slot only when the engine's close
\* succeeds
lfs_wasm_dir_close_keeps(H, handle) ==
    IF handle < 0 \/ handle >= MAX_DIRS \/ ~H.M.dir_in_use[handle]
    THEN [H |-> H, ret |-> LFS_ERR_INVAL]
    ELSE Bind(lfs_dir_close(H.M, H.M.open_dirs[handle], Flt(H, "lfs_dir_close", LFS_ERR_IO)), LAMBDA r :
              [H |-> Called(H, IF r.ret < 0 THEN H.M
                               ELSE [H.M EXCEPT !.dir_in_use[handle] = FALSE,
                                                !.open_dirs[handle] = NoDir],
                            "lfs_dir_close", <<handle>>, r.ret),
               ret |-> r.ret])

\* (the cursor left in a released slot is never read again: dir_read and
\* dir_close test dir_in_use first and dir_open overwrites it; the model
\* keeps NoDir in a slot that is not in use)
lfs_wasm_dir_close(H, handle) ==
    IF handle < 0 \/ handle >= MAX_DIRS \/ ~H.M.dir_in_use[handle]
    THEN [H |-> H, ret |-> LFS_ERR_INVAL]
    ELSE Bind(lfs_dir_close(H.M, H.M.open_dirs[handle], Flt(H, "lfs_dir_close", LFS_ERR_IO)), LAMBDA r :
              [H |-> Called(H, [H.M EXCEPT !.dir_in_use[handle] = FALSE,
                                           !.open_dirs[handle] = NoDir],
                            "lfs_dir_close", <<handle>>, r.ret),
               ret |-> r.ret])

\* for (p = dir_path + 1; *p; p++) if (*p == '/') lfs_mkdir(prefix), the
\* result of every mkdir dropped
\* MkdirParents that gives up at the first mkdir that fails with anything but
\* LFS_ERR_EXIST
RECURSIVE MkdirParents_fatal(_, _, _)
MkdirParents_fatal(H, path, i) ==
    IF i > Len(path) THEN H
    ELSE IF path[i] = "/"
    THEN Bind(lfs_mkdir(H.M, SubSeq(path, 1, i - 1), Flt(H, "lfs_mkdir", LFS_ERR_NOSPC)),
              LAMBDA r :
              IF r.ret < 0 /\ r.ret # LFS_ERR_EXIST
              THEN Called(H, r.M, "lfs_mkdir", SubSeq(path, 1, i - 1), r.ret)
              ELSE MkdirParents_fatal(
                       Called(H, r.M, "lfs_mkdir", SubSeq(path, 1, i - 1), r.ret),
                       path, i + 1))
    ELSE MkdirParents_fatal(H, path, i + 1)

RECURSIVE MkdirParents(_, _, _)
MkdirParents(H, path, i) ==
    IF i > Len(path) THEN H
    ELSE IF path[i] = "/"
    THEN Bind(lfs_mkdir(H.M, SubSeq(path, 1, i - 1), Flt(H, "lfs_mkdir", LFS_ERR_NOSPC)), LAMBDA r :
              MkdirParents(Called(H, r.M, "lfs_mkdir", SubSeq(path, 1, i - 1), r.ret),
                           path, i + 1))
    ELSE MkdirParents(H, path, i + 1)

\* the file is open: the write, the close (its result dropped), the status
WriteAndClose(O, file, path, data) ==
    Bind(lfs_file_write(O.M, file, data, Flt(O, "lfs_file_write", LFS_ERR_NOSPC)), LAMBDA w :
    Bind(Called(O, O.M, "lfs_file_write", path, w.ret), LAMBDA W :
    Bind(lfs_file_close(W.M, w.file, Flt(W, "lfs_file_close", LFS_ERR_NOSPC)), LAMBDA c :
    Bind(Called(W, c.M, "lfs_file_close", path, c.ret), LAMBDA C :
         IF w.ret < 0 THEN [H |-> C, ret |-> w.ret]
         ELSE IF w.ret # Len(data) THEN [H |-> C, ret |-> LFS_ERR_IO]
         ELSE [H |-> C, ret |-> 0]))))

lfs_wasm_write_file(H, path, data) ==
    IF ~H.M.mounted THEN [H |-> H, ret |-> LFS_ERR_INVAL]
    ELSE Bind(MkdirParents(H, path, 2), LAMBDA P :
         Bind(lfs_file_open_w(P.M, path, Flt(P, "lfs_file_open", LFS_ERR_NOSPC)), LAMBDA o :
         Bind(Called(P, o.M, "lfs_file_open", path, o.ret), LAMBDA O :
              IF o.ret < 0 THEN [H |-> O, ret |-> o.ret]
              ELSE WriteAndClose(O, o.file, path, data))))

\* the bytes read are written to out_data
\* the file is open: the read, the close, the count of bytes read
ReadAndClose(O, file, path, max_size) ==
    Bind(lfs_file_read(O.M, file, max_size, Flt(O, "lfs_file_read", LFS_ERR_CORRUPT)), LAMBDA r :
    Bind(Called(O, O.M, "lfs_file_read", path, r.ret), LAMBDA R :
    Bind(lfs_file_close(R.M, file, Flt(R, "lfs_file_close", LFS_ERR_IO)), LAMBDA c :
         [H |-> Called(R, c.M, "lfs_file_close", path, c.ret),
          ret |-> r.ret, data |-> r.data])))

lfs_wasm_read_file(H, path, max_size) ==
    IF ~H.M.mounted THEN [H |-> H, ret |-> LFS_ERR_INVAL, data |-> <<>>]
    ELSE Bind(lfs_file_open_r(H.M, path, Flt(H, "lfs_file_open", LFS_ERR_CORRUPT)), LAMBDA o :
         Bind(Called(H, o.M, "lfs_file_open", path, o.ret), LAMBDA O :
              IF o.ret < 0 THEN [H |-> O, ret |-> o.ret, data |-> <<>>]
              ELSE ReadAndClose(O, o.file, path, max_size)))

lfs_wasm_file_size(H, path) ==
    IF ~H.M.mounted THEN [H |-> H, ret |-> LFS_ERR_INVAL]
    ELSE Bind(lfs_stat(H.M, path, Flt(H, "lfs_stat", LFS_ERR_CORRUPT)), LAMBDA r :
              [H |-> Called(H, H.M, "lfs_stat", path, r.ret),
               ret |-> IF r.ret < 0 THEN r.ret ELSE r.size])

lfs_wasm_get_image(H) == H.M.ram_storage

lfs_wasm_get_image_size(H) == H.M.storage_size

\* out_used and out_total are written on success only
lfs_wasm_fs_stat(H) ==
    IF ~H.M.mounted THEN [H |-> H, ret |-> LFS_ERR_INVAL, used |-> 0, total |-> 0]
    ELSE Bind(lfs_fs_size(H.M, Flt(H, "lfs_fs_size", LFS_ERR_CORRUPT)), LAMBDA u :
         Bind(Called(H, H.M, "lfs_fs_size", <<>>, u), LAMBDA C :
              IF u < 0 THEN [H |-> C, ret |-> u, used |-> 0, total |-> 0]
              ELSE [H |-> C, ret |-> 0, used |-> u, total |-> H.M.block_count]))

\* lfs_wasm_cleanup clearing the flag only when the engine's unmount
\* succeeds, as lfs_wasm_unmount does
lfs_wasm_cleanup_checked(H) ==
    Bind(lfs_wasm_unmount(H).H, LAMBDA U :
         [H |-> [U EXCEPT !.M.ram_storage = NullStorage, !.M.storage_size = 0], ret |-> 0])

lfs_wasm_cleanup(H) ==
    Bind(UnmountFirst(H), LAMBDA U :
         [H |-> [U EXCEPT !.M.ram_storage = NullStorage, !.M.storage_size = 0], ret |-> 0])

\* ------------------------------------------------------------------------
\* The TypeScript wrapper
\* ------------------------------------------------------------------------
\* module._malloc: a buffer not in use (the host never sees it fail)
Malloc(H) ==
    LET p == CHOOSE q \in 1..(Cardinality(H.heap) + 1) : q \notin H.heap
    IN  [H |-> [H EXCEPT !.heap = @ \cup {p}], ptr |-> p]

\* module._free; bad records the free of a buffer that is not allocated
Free(H, ptr) ==
    IF ptr \in H.heap THEN [H EXCEPT !.heap = @ \ {ptr}] ELSE [H EXCEPT !.bad = TRUE]

\* allocString and allocBuffer: one _malloc each (the bytes they copy in are
\* the arguments of the raw call that follows)
allocString(H, str) == Malloc(H)
allocBuffer(H, data) == Malloc(H)

ERROR_MESSAGES ==
    (-1 :> "I/O error") @@ (-2 :> "Corrupted filesystem")
    @@ (-3 :> "No such file or directory") @@ (-4 :> "Entry already exists")
    @@ (-5 :> "Entry is not a directory") @@ (-6 :> "Entry is a directory")
    @@ (-7 :> "Directory not empty") @@ (-9 :> "Bad file descriptor")
    @@ (-10 :> "File too large") @@ (-11 :> "Invalid parameter")
    @@ (-12 :> "No space left on device") @@ (-13 :> "No memory available")
    @@ (-17 :> "No attribute available") @@ (-22 :> "Filename too long")

\* a LittleFSError: its code and its message `${context}: ${msg}`
NoErr == [thrown |-> FALSE, code |-> 0, context |-> <<>>, text |-> <<>>]

\* checkError throwing for every status that is not positive
checkError_zero_throws(code, context) ==
    IF code <= 0
    THEN [thrown |-> TRUE, code |-> code, context |-> context,
          text |-> IF code \in DOMAIN ERROR_MESSAGES
                   THEN <<ERROR_MESSAGES[code]>>
                   ELSE <<"Unknown error (", code, ")">>]
    ELSE NoErr

checkError(code, context) ==
    IF code < 0
    THEN [thrown |-> TRUE, code |-> code, context |-> context,
          text |-> IF code \in DOMAIN ERROR_MESSAGES
                   THEN <<ERROR_MESSAGES[code]>>
                   ELSE <<"Unknown error (", code, ")">>]
    ELSE NoErr

\* dirPath === '/' ? `/${name}` : `${dirPath}/${name}`
FullPath(dirPath, name) ==
    IF dirPath = <<"/">> THEN <<"/">> \o name ELSE dirPath \o <<"/">> \o name

\* listRecursive: the four buffers, the open, the read loop with the nested
\* calls, the close in the inner finally, the frees in the outer finally
RECURSIVE listRecursive(_, _, _)
\* the read loop pushing a directory's entry after its subtree instead of
\* before it
RECURSIVE ListLoop_postorder(_, _, _, _)
ListLoop_postorder(H, dirPath, handle, entries) ==
    Bind(lfs_wasm_dir_read(H, handle), LAMBDA r :
    IF r.ret <= 0 THEN [H |-> r.H, err |-> NoErr, entries |-> entries]
    ELSE Bind(FullPath(dirPath, r.info.name), LAMBDA fullPath :
         IF r.info.type = 2
         THEN Bind(listRecursive(r.H, fullPath, entries), LAMBDA sub :
                   IF sub.err.thrown THEN sub
                   ELSE ListLoop_postorder(sub.H, dirPath, handle,
                            Append(sub.entries,
                                   [path |-> fullPath, size |-> 0, type |-> "dir"])))
         ELSE ListLoop_postorder(r.H, dirPath, handle,
                       Append(entries, [path |-> fullPath, size |-> r.info.size,
                                        type |-> "file"]))))

\* the read loop: one dir_read, then the entry it returned.  (The operators
\* of the listing take the result of the previous call as a parameter, which
\* keeps the evaluation of a listing MAX_DIRS levels deep shallow.)
RECURSIVE ListLoop(_, _, _, _)
\* after the nested call of a directory entry: its throw propagates,
\* otherwise the loop goes on
ListAfter(sub, dirPath, handle) ==
    IF sub.err.thrown THEN sub ELSE ListLoop(sub.H, dirPath, handle, sub.entries)

\* the body of the loop for the result r of dir_read
ListEntry(r, dirPath, handle, entries) ==
    CASE r.ret <= 0 -> [H |-> r.H, err |-> NoErr, entries |-> entries]
      [] r.ret > 0 /\ r.info.type = 2 ->
             ListAfter(listRecursive(r.H, FullPath(dirPath, r.info.name),
                           Append(entries, [path |-> FullPath(dirPath, r.info.name),
                                            size |-> 0, type |-> "dir"])),
                       dirPath, handle)
      [] OTHER -> ListLoop(r.H, dirPath, handle,
                           Append(entries, [path |-> FullPath(dirPath, r.info.name),
                                            size |-> r.info.size, type |-> "file"]))

ListLoop(H, dirPath, handle, entries) ==
    ListEntry(lfs_wasm_dir_read(H, handle), dirPath, handle, entries)

\* the open and the read loop with the close skipped when the loop throws
ListOpen_noclose(H, dirPath, entries) ==
    Bind(lfs_wasm_dir_open(H, dirPath), LAMBDA o :
    IF o.ret < 0
    THEN [H |-> o.H, err |-> checkError(o.ret, <<"open directory", dirPath>>),
          entries |-> entries]
    ELSE Bind(ListLoop(o.H, dirPath, o.ret, entries), LAMBDA l :
              [H |-> IF l.err.thrown THEN l.H ELSE lfs_wasm_dir_close(l.H, o.ret).H,
               err |-> l.err, entries |-> l.entries]))

\* the outer try block: the open, the read loop, the close in the inner finally
\* (the inner finally: the close after the loop l, whether l threw or not)
ListClosed(l, handle) == [l EXCEPT !.H = lfs_wasm_dir_close(@, handle).H]

\* listRecursive passing over a directory it cannot open instead of
\* throwing
ListOpened_skips(o, dirPath, entries) ==
    IF o.ret < 0
    THEN [H |-> o.H, err |-> NoErr, entries |-> entries]
    ELSE ListClosed(ListLoop(o.H, dirPath, o.ret, entries), o.ret)

\* (the check of the handle o that dir_open returned, then the loop)
ListOpened(o, dirPath, entries) ==
    IF o.ret < 0
    THEN [H |-> o.H, err |-> checkError(o.ret, <<"open directory", dirPath>>),
          entries |-> entries]
    ELSE ListClosed(ListLoop(o.H, dirPath, o.ret, entries), o.ret)

ListOpen(H, dirPath, entries) ==
    ListOpened(lfs_wasm_dir_open(H, dirPath), dirPath, entries)

\* listRecursive without the outer finally: the four frees are skipped when
\* the body throws
listRecursive_nofinally(H, dirPath, entries) ==
    Bind(allocString(H, dirPath), LAMBDA pathPtr :
    Bind(Malloc(pathPtr.H), LAMBDA namePtr :
    Bind(Malloc(namePtr.H), LAMBDA typePtr :
    Bind(Malloc(typePtr.H), LAMBDA sizePtr :
    Bind(ListOpen(sizePtr.H, dirPath, entries), LAMBDA l :
         IF l.err.thrown THEN l
         ELSE [H |-> Free(Free(Free(Free(l.H, pathPtr.ptr), namePtr.ptr), typePtr.ptr),
                          sizePtr.ptr),
               err |-> l.err, entries |-> l.entries])))))

\* the four buffers of one level: pathPtr, namePtr, typePtr, sizePtr
ListBuffers(H, dirPath) ==
    Bind(allocString(H, dirPath), LAMBDA pathPtr :
    Bind(Malloc(pathPtr.H), LAMBDA namePtr :
    Bind(Malloc(namePtr.H), LAMBDA typePtr :
    Bind(Malloc(typePtr.H), LAMBDA sizePtr :
         [ptrs |-> <<pathPtr.ptr, namePtr.ptr, typePtr.ptr, sizePtr.ptr>>,
          H |-> sizePtr.H]))))

\* the outer finally: the four frees after the try block l
ListFreed(l, ptrs) ==
    [l EXCEPT !.H = Free(Free(Free(Free(@, ptrs[1]), ptrs[2]), ptrs[3]), ptrs[4])]

\* the try block on the buffers b
ListTried(b, dirPath, entries) == ListFreed(ListOpen(b.H, dirPath, entries), b.ptrs)

listRecursive(H, dirPath, entries) == ListTried(ListBuffers(H, dirPath), dirPath, entries)

list(H, basePath) ==
    Bind(listRecursive(H, basePath, <<>>), LAMBDA r :
         [H |-> r.H, err |-> r.err, value |-> IF r.err.thrown THEN <<>> ELSE r.entries])

writeFile(H, path, bytes) ==
    Bind(allocString(H, path), LAMBDA pathPtr :
    Bind(allocBuffer(pathPtr.H, bytes), LAMBDA dataPtr :
    Bind(lfs_wasm_write_file(dataPtr.H, path, bytes), LAMBDA w :
         [H |-> Free(Free(w.H, pathPtr.ptr), dataPtr.ptr),
          err |-> checkError(w.ret, <<"write file", path>>), value |-> <<>>])))

\* the inner try block of readFile: the buffer, the read, the free
ReadInto(H, path, size) ==
    Bind(Malloc(H), LAMBDA outPtr :
    Bind(lfs_wasm_read_file(outPtr.H, path, size), LAMBDA r :
         [H |-> Free(r.H, outPtr.ptr),
          err |-> checkError(r.ret, <<"read file", path>>),
          value |-> IF r.ret < 0 THEN <<>> ELSE SubSeq(r.data, 1, r.ret)]))

readFile(H, path) ==
    Bind(allocString(H, path), LAMBDA pathPtr :
    Bind(lfs_wasm_file_size(pathPtr.H, path), LAMBDA s :
    IF s.ret < 0
    THEN [H |-> Free(s.H, pathPtr.ptr), err |-> checkError(s.ret, <<"stat file", path>>),
          value |-> <<>>]
    ELSE IF s.ret = 0 THEN [H |-> Free(s.H, pathPtr.ptr), err |-> NoErr, value |-> <<>>]
    ELSE Bind(ReadInto(s.H, path, s.ret), LAMBDA r :
              [H |-> Free(r.H, pathPtr.ptr), err |-> r.err, value |-> r.value])))

\* entries.sort((a, b) => b.path.length - a.path.length): stable, longest first
RECURSIVE InsertByLength(_, _)
InsertByLength(sorted, e) ==
    IF sorted = <<>> THEN <<e>>
    ELSE IF Len(Head(sorted).path) >= Len(e.path)
    THEN <<Head(sorted)>> \o InsertByLength(Tail(sorted), e)
    ELSE <<e>> \o sorted

\* the listing left in the order list returned it
SortByLength_unsorted(entries, acc) == acc \o entries

RECURSIVE SortByLength(_, _)
SortByLength(entries, acc) ==
    IF entries = <<>> THEN acc
    ELSE SortByLength(Tail(entries), InsertByLength(acc, Head(entries)))

\* a sweep that ends at the first remove that fails
RECURSIVE RemoveEach_stops(_, _)
RemoveEach_stops(H, entries) ==
    IF entries = <<>> THEN H
    ELSE Bind(allocString(H, Head(entries).path), LAMBDA ptr :
         Bind(lfs_wasm_remove(ptr.H, Head(entries).path), LAMBDA r :
              IF r.ret < 0 THEN Free(r.H, ptr.ptr)
              ELSE RemoveEach_stops(Free(r.H, ptr.ptr), Tail(entries))))

\* the sweep of delete(path, {recursive: true}): each remove's result dropped
RECURSIVE RemoveEach(_, _)
RemoveEach(H, entries) ==
    IF entries = <<>> THEN H
    ELSE Bind(allocString(H, Head(entries).path), LAMBDA ptr :
         Bind(lfs_wasm_remove(ptr.H, Head(entries).path), LAMBDA r :
              RemoveEach(Free(r.H, ptr.ptr), Tail(entries))))

\* the last statement of delete: the remove of path itself
RemovePath(H, path) ==
    Bind(allocString(H, path), LAMBDA pathPtr :
    Bind(lfs_wasm_remove(pathPtr.H, path), LAMBDA r :
         [H |-> Free(r.H, pathPtr.ptr), err |-> checkError(r.ret, <<"delete", path>>),
          value |-> <<>>]))

\* delete going on to the remove of path when the listing has thrown
delete_past_listing(H, path, recursive) ==
    IF recursive
    THEN Bind(list(H, path), LAMBDA l :
              IF l.err.thrown THEN RemovePath(l.H, path)
              ELSE RemovePath(RemoveEach(l.H, SortByLength(l.value, <<>>)), path))
    ELSE RemovePath(H, path)

delete(H, path, recursive) ==
    IF recursive
    THEN Bind(list(H, path), LAMBDA l :
              IF l.err.thrown THEN [H |-> l.H, err |-> l.err, value |-> <<>>]
              ELSE RemovePath(RemoveEach(l.H, SortByLength(l.value, <<>>)), path))
    ELSE RemovePath(H, path)

mkdir(H, path) ==
    Bind(allocString(H, path), LAMBDA pathPtr :
    Bind(lfs_wasm_mkdir(pathPtr.H, path), LAMBDA r :
         [H |-> Free(r.H, pathPtr.ptr),
          err |-> IF r.ret # 0 /\ r.ret # -4 THEN checkError(r.ret, <<"mkdir", path>>)
                  ELSE NoErr,
          value |-> <<>>]))

rename(H, oldPath, newPath) ==
    Bind(allocString(H, oldPath), LAMBDA oldPtr :
    Bind(allocString(oldPtr.H, newPath), LAMBDA newPtr :
    Bind(lfs_wasm_rename(newPtr.H, oldPath, newPath), LAMBDA r :
         [H |-> Free(Free(r.H, oldPtr.ptr), newPtr.ptr),
          err |-> checkError(r.ret, <<"rename", oldPath, newPath>>), value |-> <<>>])))

\* format() without its second line, the mount after the format
format_nomount(H) ==
    Bind(lfs_wasm_format(H), LAMBDA f :
         [H |-> f.H, err |-> checkError(f.ret, <<"format">>), value |-> <<>>])

format(H) ==
    Bind(lfs_wasm_format(H), LAMBDA f :
    IF f.ret < 0 THEN [H |-> f.H, err |-> checkError(f.ret, <<"format">>), value |-> <<>>]
    ELSE Bind(lfs_wasm_mount(f.H), LAMBDA m :
              [H |-> m.H, err |-> checkError(m.ret, <<"mount after format">>),
               value |-> <<>>]))

\* an image held by the host: its length and its bytes other than 0xFF
NoImage == [len |-> 0, mem |-> {}]

\* toImage returning the subarray itself: a view of the wasm memory
toImage_view(H, low) ==
    Bind(lfs_wasm_get_image(H), LAMBDA ptr :
    Bind(lfs_wasm_get_image_size(H), LAMBDA size :
         [H |-> H, err |-> NoErr,
          value |-> [len |-> size, view |-> TRUE,
                     mem |-> {p \in (IF ptr.null THEN low ELSE ptr.mem) : p[1] < size}]]))

\* toImage: size bytes copied from the address lfs_wasm_get_image returns
\* into a new Uint8Array (view: the array is a window on the wasm memory, not
\* a copy); with no store that address is 0 and the bytes are whatever the
\* wasm memory holds there (low)
toImage(H, low) ==
    Bind(lfs_wasm_get_image(H), LAMBDA ptr :
    Bind(lfs_wasm_get_image_size(H), LAMBDA size :
         [H |-> H, err |-> NoErr,
          value |-> [len |-> size, view |-> FALSE,
                     mem |-> {p \in (IF ptr.null THEN low ELSE ptr.mem) : p[1] < size}]]))

getUsage(H) ==
    Bind(Malloc(H), LAMBDA usedPtr :
    Bind(Malloc(usedPtr.H), LAMBDA totalPtr :
    Bind(lfs_wasm_fs_stat(totalPtr.H), LAMBDA r :
         [H |-> Free(Free(r.H, usedPtr.ptr), totalPtr.ptr),
          err |-> checkError(r.ret, <<"get usage">>),
          value |-> IF r.ret < 0 THEN <<>>
                    ELSE <<[used |-> r.used, total |-> r.total, free |-> r.total - r.used]>>])))

getDiskVersion(H) ==
    Bind(Malloc(H), LAMBDA versionPtr :
    Bind(lfs_wasm_get_fs_info(versionPtr.H), LAMBDA r :
         [H |-> Free(r.H, versionPtr.ptr), err |-> checkError(r.ret, <<"get disk version">>),
          value |-> IF r.ret < 0 THEN <<>> ELSE <<r.version>>]))

destroy(H) == [H |-> lfs_wasm_cleanup(H).H, err |-> NoErr, value |-> <<>>]

\* an option that is not given
Undef == -1

\* createLittleFS(options): value is <<TRUE>> when a LittleFSImpl is returned
\* createLittleFS after the init: the format when asked for, the mount
FormatAndMount(H, formatOnInit) ==
    Bind(IF formatOnInit THEN lfs_wasm_format(H) ELSE [H |-> H, ret |-> 0], LAMBDA f :
    IF f.ret < 0 THEN [H |-> f.H, err |-> checkError(f.ret, <<"format">>), value |-> <<>>]
    ELSE Bind(lfs_wasm_mount(f.H), LAMBDA m :
         IF m.ret < 0 THEN [H |-> m.H, err |-> checkError(m.ret, <<"mount">>), value |-> <<>>]
         ELSE [H |-> m.H, err |-> NoErr, value |-> <<TRUE>>]))

createLittleFS(H, options, oom) ==
    LET blockSize == IF options.blockSize = Undef THEN 4096 ELSE options.blockSize
        blockCount == IF options.blockCount = Undef THEN 256 ELSE options.blockCount
        lookahead == IF options.lookaheadSize = Undef THEN 32 ELSE options.lookaheadSize
    IN  Bind(IF options.diskVersion # Undef
             THEN lfs_wasm_set_disk_version(H, options.diskVersion).H
             ELSE H,
             LAMBDA S :
        Bind(lfs_wasm_init(S, blockSize, blockCount, lookahead, oom), LAMBDA i :
             IF i.ret < 0
             THEN [H |-> i.H, err |-> checkError(i.ret, <<"init">>), value |-> <<>>]
             ELSE FormatAndMount(i.H, options.formatOnInit)))

\* createLittleFSFromImage(image, options): the raw call gets three
\* arguments, so blk_count and lookahead are 0
\* createLittleFSFromImage formatting the store before it mounts it
createLittleFSFromImage_formats(H, image, options, oom) ==
    Bind(allocBuffer(H, image), LAMBDA imagePtr :
    Bind(lfs_wasm_init_from_image(imagePtr.H, image,
             IF options.blockSize = Undef THEN 0 ELSE options.blockSize, 0, 0, oom),
         LAMBDA i :
    Bind(Free(i.H, imagePtr.ptr), LAMBDA F :
         IF i.ret < 0
         THEN [H |-> F, err |-> checkError(i.ret, <<"init from image">>), value |-> <<>>]
         ELSE Bind(lfs_wasm_mount(lfs_wasm_format(F).H), LAMBDA m :
              IF m.ret < 0
              THEN [H |-> m.H, err |-> checkError(m.ret, <<"mount">>), value |-> <<>>]
              ELSE [H |-> m.H, err |-> NoErr, value |-> <<TRUE>>]))))

createLittleFSFromImage(H, image, options, oom) ==
    Bind(allocBuffer(H, image), LAMBDA imagePtr :
    Bind(lfs_wasm_init_from_image(imagePtr.H, image,
             IF options.blockSize = Undef THEN 0 ELSE options.blockSize, 0, 0, oom),
         LAMBDA i :
    Bind(Free(i.H, imagePtr.ptr), LAMBDA F :
         IF i.ret < 0
         THEN [H |-> F, err |-> checkError(i.ret, <<"init from image">>), value |-> <<>>]
         ELSE Bind(lfs_wasm_mount(F), LAMBDA m :
              IF m.ret < 0
              THEN [H |-> m.H, err |-> checkError(m.ret, <<"mount">>), value |-> <<>>]
              ELSE [H |-> m.H, err |-> NoErr, value |-> <<TRUE>>]))))

\* ------------------------------------------------------------------------
\* State
\* ------------------------------------------------------------------------
VARIABLES
    ram_storage,   \* the store: [null, mem]
    storage_size,
    block_size,
    block_count,
    disk_version,  \* the setting of lfs_wasm_set_disk_version
    cfg,           \* struct lfs_config
    mounted,
    lfs,           \* lfs_t: the engine's state of the mounted filesystem
    dir_in_use,
    open_dirs,
    heap,          \* the buffers the host has from _malloc and has not freed
    bad,           \* a buffer was freed that was not allocated
    impl,          \* a LittleFSImpl has been returned to the host
    image,         \* the Uint8Array the host keeps from a toImage(), if any
    live_opens,    \* history: the directory opens that returned a handle less
                   \* the closes of a handle in use, since the last initialize
    last           \* the call that has just returned: its arguments, the
                   \* statics before it, its result, the engine calls it made

statics ==
    <<ram_storage, storage_size, block_size, block_count, disk_version, cfg,
      mounted, lfs, dir_in_use, open_dirs>>

vars == <<statics, heap, bad, impl, image, live_opens, last>>

\* the statics as one record
CurM ==
    [ram_storage |-> ram_storage, storage_size |-> storage_size,
     block_size |-> block_size, block_count |-> block_count,
     disk_version |-> disk_version, cfg |-> cfg, mounted |-> mounted, lfs |-> lfs,
     dir_in_use |-> dir_in_use, open_dirs |-> open_dirs]

\* the context of a call whose k-th engine call fails
Cur(k) == [M |-> CurM, k |-> k, calls |-> <<>>, heap |-> heap, bad |-> bad]

Install(H) ==
    /\ ram_storage' = H.M.ram_storage
    /\ storage_size' = H.M.storage_size
    /\ block_size' = H.M.block_size
    /\ block_count' = H.M.block_count
    /\ disk_version' = H.M.disk_version
    /\ cfg' = H.M.cfg
    /\ mounted' = H.M.mounted
    /\ lfs' = H.M.lfs
    /\ dir_in_use' = H.M.dir_in_use
    /\ open_dirs' = H.M.open_dirs
    /\ heap' = H.heap
    /\ bad' = H.bad

\* the engine's dir_open calls that succeeded less its dir_close calls: the
\* adapter calls lfs_dir_open once per dir_open that finds a slot and
\* lfs_dir_close once per dir_close of a handle in use
RECURSIVE NetOpens(_)
NetOpens(calls) ==
    IF calls = <<>> THEN 0
    ELSE NetOpens(Tail(calls))
         + (IF Head(calls).fn = "lfs_dir_open" /\ Head(calls).ret >= 0 THEN 1
            ELSE IF Head(calls).fn = "lfs_dir_close" THEN -1 ELSE 0)

\* live_opens after a call: an initialize that succeeded starts the count
\* again
Tally(initialized, calls) ==
    live_opens' = IF initialized THEN 0 ELSE live_opens + NetOpens(calls)

Idle == [op |-> "idle", args |-> <<>>, k |-> NoFault, pre |-> <<>>, err |-> NoErr,
         ret |-> 0, value |-> <<>>, calls |-> <<>>]

\* a host method returned (or threw)
Returned(op, args, k, r) ==
    /\ Install(r.H)
    /\ UNCHANGED image
    /\ Tally(/\ op \in {"createLittleFS", "createLittleFSFromImage"}
             /\ ~(r.err.thrown /\ r.err.context \in {<<"init">>, <<"init from image">>}),
             r.H.calls)
    /\ last' = [op |-> op, args |-> args, k |-> k, pre |-> <<Cur(k)>>, err |-> r.err,
                ret |-> 0, value |-> r.value, calls |-> r.H.calls]

\* a raw function returned
RawReturned(op, args, k, r, value) ==
    /\ Install(r.H)
    /\ UNCHANGED image
    /\ Tally(op \in {"lfs_wasm_init", "lfs_wasm_init_from_image"} /\ r.ret = 0, r.H.calls)
    /\ last' = [op |-> op, args |-> args, k |-> k, pre |-> <<Cur(k)>>, err |-> NoErr,
                ret |-> r.ret, value |-> value, calls |-> r.H.calls]

Init ==
    /\ ram_storage = NullStorage
    /\ storage_size = 0
    /\ block_size = DEFAULT_BLOCK_SIZE
    /\ block_count = DEFAULT_BLOCK_COUNT
    /\ disk_version = DEFAULT_DISK_VERSION
    /\ cfg = ZeroCfg
    /\ mounted = FALSE
    /\ lfs = NoLfs
    /\ dir_in_use = NoSlots
    /\ open_dirs = NoDirs
    /\ heap = {}
    /\ bad = FALSE
    /\ impl = FALSE
    /\ image = <<>>
    /\ live_opens = 0
    /\ last = Idle

\* ------------------------------------------------------------------------
\* The inputs the host draws from
\* ------------------------------------------------------------------------
P_root == <<"/">>
P_a == <<"/", "a">>
P_d == <<"/", "d">>
P_ds == <<"/", "d", "/", "s">>
P_dsx == <<"/", "d", "/", "s", "/", "x">>

WritePaths == {P_a, P_dsx}
ReadPaths == {P_a, P_dsx, P_d}
MkdirPaths == {P_d, P_ds}
ListPaths == {P_root, P_d}
DeletePaths == {P_a, P_d, P_ds}
RenamePairs == {<<P_a, P_dsx>>, <<P_dsx, P_a>>}
Datas == {<<>>, <<7>>, <<1, 2>>}

\* the default geometry, and 16 blocks of 512 bytes
CreateOptions ==
    [blockSize : {Undef}, blockCount : {Undef}, lookaheadSize : {Undef},
     formatOnInit : BOOLEAN, diskVersion : {Undef, DISK_VERSION_2_0}]
    \cup [blockSize : {512}, blockCount : {16}, lookaheadSize : {Undef, 16},
          formatOnInit : BOOLEAN, diskVersion : {Undef}]

ImageOptions == [blockSize : {Undef, 4096}]

\* images a host may hold: an empty one, an erased one, one shorter than a
\* block, and one a littlefs of 16 blocks of 4096 bytes wrote (a file /a)
ImgErased == [len |-> 65536, mem |-> {}]
ImgShort == [len |-> 100, mem |-> {}]
ImgOfTree(tree, version, bs, bc) ==
    [len |-> bs * bc, mem |-> WriteRange({}, 0, EncodeImage(tree, version, bs, bc))]
ImgWithFile ==
    ImgOfTree({[path |-> <<<<"a">>>>, type |-> LFS_TYPE_REG, data |-> <<7>>]},
              LFS_DISK_VERSION, 4096, 16)
InputImages == {NoImage, ImgErased, ImgShort, ImgWithFile}

\* what the wasm memory may hold at address 0
LowMemory == {{}, {<<0, 0>>}}

\* the faults an operation can meet: none, or the i-th call of an engine
\* function it makes (the run is the fault-free one up to the call that fails)
FaultsIn(r) ==
    {NoFault}
    \cup {[fn |-> r.H.calls[j].fn, i |-> Occurrences(SubSeq(r.H.calls, 1, j), r.H.calls[j].fn)] :
              j \in {x \in 1..Len(r.H.calls) :
                         Occurrences(SubSeq(r.H.calls, 1, x), r.H.calls[x].fn) <= MaxFaultPos}}

\* ------------------------------------------------------------------------
\* Host actions: one per exported function of the package and per method of
\* LittleFSImpl.  A call is made when the previous one has been observed.
\* ------------------------------------------------------------------------
\* a factory returned: the host holds a LittleFSImpl unless it threw
Created(op, args, k, r) ==
    /\ Returned(op, args, k, r)
    /\ impl' = (impl \/ ~r.err.thrown)

CreateLittleFS ==
    \E o \in CreateOptions, oom \in BOOLEAN :
        /\ last.op = "idle"
        /\ \E k \in FaultsIn(createLittleFS(Cur(NoFault), o, oom)) :
               Created("createLittleFS", <<o, oom>>, k, createLittleFS(Cur(k), o, oom))

CreateLittleFSFromImage ==
    \E img \in InputImages, o \in ImageOptions, oom \in BOOLEAN :
        /\ last.op = "idle"
        /\ \E k \in FaultsIn(createLittleFSFromImage(Cur(NoFault), img, o, oom)) :
               Created("createLittleFSFromImage", <<img, o, oom>>, k,
                       createLittleFSFromImage(Cur(k), img, o, oom))

Format ==
    /\ last.op = "idle" /\ impl
    /\ \E k \in FaultsIn(format(Cur(NoFault))) :
           Returned("format", <<>>, k, format(Cur(k)))
    /\ UNCHANGED impl

List ==
    \E p \in ListPaths :
        /\ last.op = "idle" /\ impl
        /\ \E k \in FaultsIn(list(Cur(NoFault), p)) :
               Returned("list", <<p>>, k, list(Cur(k), p))
        /\ UNCHANGED impl

WriteFile ==
    \E p \in WritePaths, d \in Datas :
        /\ last.op = "idle" /\ impl
        /\ \E k \in FaultsIn(writeFile(Cur(NoFault), p, d)) :
               Returned("writeFile", <<p, d>>, k, writeFile(Cur(k), p, d))
        /\ UNCHANGED impl

ReadFile ==
    \E p \in ReadPaths :
        /\ last.op = "idle" /\ impl
        /\ \E k \in FaultsIn(readFile(Cur(NoFault), p)) :
               Returned("readFile", <<p>>, k, readFile(Cur(k), p))
        /\ UNCHANGED impl

Delete ==
    \E p \in DeletePaths, rec \in BOOLEAN :
        /\ last.op = "idle" /\ impl
        /\ \E k \in FaultsIn(delete(Cur(NoFault), p, rec)) :
               Returned("delete", <<p, rec>>, k, delete(Cur(k), p, rec))
        /\ UNCHANGED impl

Mkdir ==
    \E p \in MkdirPaths :
        /\ last.op = "idle" /\ impl
        /\ \E k \in FaultsIn(mkdir(Cur(NoFault), p)) :
               Returned("mkdir", <<p>>, k, mkdir(Cur(k), p))
        /\ UNCHANGED impl

Rename ==
    \E pq \in RenamePairs :
        /\ last.op = "idle" /\ impl
        /\ \E k \in FaultsIn(rename(Cur(NoFault), pq[1], pq[2])) :
               Returned("rename", pq, k, rename(Cur(k), pq[1], pq[2]))
        /\ UNCHANGED impl

ToImage ==
    \E low \in LowMemory :
        /\ last.op = "idle" /\ impl
        /\ Returned("toImage", <<>>, NoFault, toImage(Cur(NoFault), low))
        /\ UNCHANGED impl

GetUsage ==
    /\ last.op = "idle" /\ impl
    /\ \E k \in FaultsIn(getUsage(Cur(NoFault))) :
           Returned("getUsage", <<>>, k, getUsage(Cur(k)))
    /\ UNCHANGED impl

GetDiskVersion ==
    /\ last.op = "idle" /\ impl
    /\ \E k \in FaultsIn(getDiskVersion(Cur(NoFault))) :
           Returned("getDiskVersion", <<>>, k, getDiskVersion(Cur(k)))
    /\ UNCHANGED impl

Destroy ==
    /\ last.op = "idle" /\ impl
    /\ \E k \in FaultsIn(destroy(Cur(NoFault))) :
           Returned("destroy", <<>>, k, destroy(Cur(k)))
    /\ UNCHANGED impl

\* the host has looked at the result of the last call
Observe ==
    /\ last.op # "idle"
    /\ last' = Idle
    /\ UNCHANGED <<statics, heap, bad, impl, image, live_opens>>

Next ==
    \/ CreateLittleFS
    \/ CreateLittleFSFromImage
    \/ Format
    \/ List
    \/ WriteFile
    \/ ReadFile
    \/ Delete
    \/ Mkdir
    \/ Rename
    \/ ToImage
    \/ GetUsage
    \/ GetDiskVersion
    \/ Destroy
    \/ Observe

Spec == Init /\ [][Next]_vars

\* ------------------------------------------------------------------------
\* Raw actions: a host that calls the exported C functions itself, in any
\* order
\* ------------------------------------------------------------------------
P_df == <<"/", "d", "/", "f">>
RawPaths == {P_a, P_d}
RawWritePaths == {P_a, P_df}
RawDatas == {<<>>, <<7>>}
RawSizes == {0, 4096}
RawCounts == {0, 16}

InUse == {i \in 0..(MAX_DIRS - 1) : dir_in_use[i]}

RawInit ==
    \E bs \in RawSizes, bc \in {16}, oom \in BOOLEAN :
        /\ last.op = "idle"
        /\ \E k \in FaultsIn(lfs_wasm_init(Cur(NoFault), bs, bc, 0, oom)) :
               RawReturned("lfs_wasm_init", <<bs, bc, oom>>, k, lfs_wasm_init(Cur(k), bs, bc, 0, oom), <<>>)
        /\ UNCHANGED impl

RawInitFromImage ==
    \E img \in {ImgShort, ImgWithFile}, bc \in RawCounts, oom \in BOOLEAN :
        /\ last.op = "idle"
        /\ \E k \in FaultsIn(lfs_wasm_init_from_image(Cur(NoFault), img, 0, bc, 0, oom)) :
               RawReturned("lfs_wasm_init_from_image", <<img, bc, oom>>, k, lfs_wasm_init_from_image(Cur(k), img, 0, bc, 0, oom), <<>>)
        /\ UNCHANGED impl

RawSetDiskVersion ==
    \E v \in {DISK_VERSION_2_0} :
        /\ last.op = "idle"
        /\ RawReturned("lfs_wasm_set_disk_version", <<v>>, NoFault,
                       lfs_wasm_set_disk_version(Cur(NoFault), v), <<>>)
        /\ UNCHANGED impl

RawGetDiskVersion ==
    /\ last.op = "idle"
    /\ Bind(lfs_wasm_get_disk_version(Cur(NoFault)), LAMBDA r :
            RawReturned("lfs_wasm_get_disk_version", <<>>, NoFault, r, <<r.ret>>))
    /\ UNCHANGED impl

RawMount ==
    /\ last.op = "idle"
    /\ \E k \in FaultsIn(lfs_wasm_mount(Cur(NoFault))) :
           RawReturned("lfs_wasm_mount", <<>>, k, lfs_wasm_mount(Cur(k)), <<>>)
    /\ UNCHANGED impl

RawUnmount ==
    /\ last.op = "idle"
    /\ \E k \in FaultsIn(lfs_wasm_unmount(Cur(NoFault))) :
           RawReturned("lfs_wasm_unmount", <<>>, k, lfs_wasm_unmount(Cur(k)), <<>>)
    /\ UNCHANGED impl

RawFormat ==
    /\ last.op = "idle"
    /\ \E k \in FaultsIn(lfs_wasm_format(Cur(NoFault))) :
           RawReturned("lfs_wasm_format", <<>>, k, lfs_wasm_format(Cur(k)), <<>>)
    /\ UNCHANGED impl

RawCleanup ==
    /\ last.op = "idle"
    /\ \E k \in FaultsIn(lfs_wasm_cleanup(Cur(NoFault))) :
           RawReturned("lfs_wasm_cleanup", <<>>, k, lfs_wasm_cleanup(Cur(k)), <<>>)
    /\ UNCHANGED impl

RawMkdir ==
    \E p \in RawPaths :
        /\ last.op = "idle"
        /\ \E k \in FaultsIn(lfs_wasm_mkdir(Cur(NoFault), p)) :
               RawReturned("lfs_wasm_mkdir", <<p>>, k, lfs_wasm_mkdir(Cur(k), p), <<>>)
        /\ UNCHANGED impl

RawRemove ==
    \E p \in RawPaths :
        /\ last.op = "idle"
        /\ \E k \in FaultsIn(lfs_wasm_remove(Cur(NoFault), p)) :
               RawReturned("lfs_wasm_remove", <<p>>, k, lfs_wasm_remove(Cur(k), p), <<>>)
        /\ UNCHANGED impl

RawRename ==
    \E pq \in {<<P_a, P_df>>, <<P_df, P_a>>} :
        /\ last.op = "idle"
        /\ \E k \in FaultsIn(lfs_wasm_rename(Cur(NoFault), pq[1], pq[2])) :
               RawReturned("lfs_wasm_rename", pq, k, lfs_wasm_rename(Cur(k), pq[1], pq[2]), <<>>)
        /\ UNCHANGED impl

RawStat ==
    \E p \in RawPaths :
        /\ last.op = "idle"
        /\ \E k \in FaultsIn(lfs_wasm_stat(Cur(NoFault), p)) :
               Bind(lfs_wasm_stat(Cur(k), p), LAMBDA r :
                    RawReturned("lfs_wasm_stat", <<p>>, k, r,
                                IF r.wrote THEN <<r.type, r.size>> ELSE <<>>))
        /\ UNCHANGED impl

RawDirOpen ==
    \E p \in {P_root, P_d} :
        /\ last.op = "idle"
        /\ Cardinality(InUse) < MaxRawOpen
        /\ \E k \in FaultsIn(lfs_wasm_dir_open(Cur(NoFault), p)) :
               RawReturned("lfs_wasm_dir_open", <<p>>, k, lfs_wasm_dir_open(Cur(k), p), <<>>)
        /\ UNCHANGED impl

RawDirRead ==
    \E h \in -1..MaxRawOpen :
        /\ last.op = "idle"
        /\ \E k \in FaultsIn(lfs_wasm_dir_read(Cur(NoFault), h)) :
               Bind(lfs_wasm_dir_read(Cur(k), h), LAMBDA r :
                    RawReturned("lfs_wasm_dir_read", <<h>>, k, r,
                                IF r.ret = 1 THEN <<r.info>> ELSE <<>>))
        /\ UNCHANGED impl

RawDirClose ==
    \E h \in -1..MaxRawOpen :
        /\ last.op = "idle"
        /\ \E k \in FaultsIn(lfs_wasm_dir_close(Cur(NoFault), h)) :
               RawReturned("lfs_wasm_dir_close", <<h>>, k, lfs_wasm_dir_close(Cur(k), h), <<>>)
        /\ UNCHANGED impl

RawWriteFile ==
    \E p \in RawWritePaths, d \in RawDatas :
        /\ last.op = "idle"
        /\ \E k \in FaultsIn(lfs_wasm_write_file(Cur(NoFault), p, d)) :
               RawReturned("lfs_wasm_write_file", <<p, d>>, k, lfs_wasm_write_file(Cur(k), p, d), <<>>)
        /\ UNCHANGED impl

RawReadFile ==
    \E p \in RawWritePaths, max \in {0, 1} :
        /\ last.op = "idle"
        /\ \E k \in FaultsIn(lfs_wasm_read_file(Cur(NoFault), p, max)) :
               Bind(lfs_wasm_read_file(Cur(k), p, max), LAMBDA r :
                    RawReturned("lfs_wasm_read_file", <<p, max>>, k, r,
                                r.data))
        /\ UNCHANGED impl

RawFileSize ==
    \E p \in RawPaths :
        /\ last.op = "idle"
        /\ \E k \in FaultsIn(lfs_wasm_file_size(Cur(NoFault), p)) :
               RawReturned("lfs_wasm_file_size", <<p>>, k, lfs_wasm_file_size(Cur(k), p), <<>>)
        /\ UNCHANGED impl

RawFsStat ==
    /\ last.op = "idle"
    /\ \E k \in FaultsIn(lfs_wasm_fs_stat(Cur(NoFault))) :
           Bind(lfs_wasm_fs_stat(Cur(k)), LAMBDA r :
                RawReturned("lfs_wasm_fs_stat", <<>>, k, r,
                            IF r.ret = 0 THEN <<r.used, r.total>> ELSE <<>>))
    /\ UNCHANGED impl

RawGetFsInfo ==
    /\ last.op = "idle"
    /\ \E k \in FaultsIn(lfs_wasm_get_fs_info(Cur(NoFault))) :
           Bind(lfs_wasm_get_fs_info(Cur(k)), LAMBDA r :
                RawReturned("lfs_wasm_get_fs_info", <<>>, k, r,
                            IF r.ret = 0 THEN <<r.version>> ELSE <<>>))
    /\ UNCHANGED impl

NextRaw ==
    \/ RawInit
    \/ RawInitFromImage
    \/ RawSetDiskVersion
    \/ RawGetDiskVersion
    \/ RawMount
    \/ RawUnmount
    \/ RawFormat
    \/ RawCleanup
    \/ RawMkdir
    \/ RawRemove
    \/ RawRename
    \/ RawStat
    \/ RawDirOpen
    \/ RawDirRead
    \/ RawDirClose
    \/ RawWriteFile
    \/ RawReadFile
    \/ RawFileSize
    \/ RawFsStat
    \/ RawGetFsInfo
    \/ Observe

SpecRaw == Init /\ [][NextRaw]_vars

\* ------------------------------------------------------------------------
\* A host that keeps the image a toImage() returned while it goes on using
\* the filesystem (16 blocks of 512 bytes, one file)
\* ------------------------------------------------------------------------
\* the bytes (other than 0xFF) the host reads in the image it keeps
HeldBytes ==
    IF image[1].view THEN {p \in ram_storage.mem : p[1] < image[1].len}
    ELSE image[1].mem

ImgOptions ==
    [blockSize : {512}, blockCount : {16}, lookaheadSize : {Undef},
     formatOnInit : BOOLEAN, diskVersion : {Undef}]

ImgCreate ==
    \E o \in ImgOptions :
        /\ last.op = "idle"
        /\ \E k \in FaultsIn(createLittleFS(Cur(NoFault), o, FALSE)) :
               Created("createLittleFS", <<o, FALSE>>, k, createLittleFS(Cur(k), o, FALSE))

ImgWriteFile ==
    \E d \in {<<7>>, <<1, 2>>} :
        /\ last.op = "idle" /\ impl
        /\ \E k \in FaultsIn(writeFile(Cur(NoFault), P_a, d)) :
               Returned("writeFile", <<P_a, d>>, k, writeFile(Cur(k), P_a, d))
        /\ UNCHANGED impl

ImgDelete ==
    /\ last.op = "idle" /\ impl
    /\ \E k \in FaultsIn(delete(Cur(NoFault), P_a, FALSE)) :
           Returned("delete", <<P_a, FALSE>>, k, delete(Cur(k), P_a, FALSE))
    /\ UNCHANGED impl

\* const image = fs.toImage(): the host keeps the array
KeepImage ==
    /\ last.op = "toImage"
    /\ image' = <<last.value>>
    /\ last' = Idle
    /\ UNCHANGED <<statics, heap, bad, impl, live_opens>>

NextImage ==
    \/ ImgCreate
    \/ ImgWriteFile
    \/ ImgDelete
    \/ Format
    \/ ToImage
    \/ KeepImage
    \/ Destroy
    \/ Observe

SpecImage == Init /\ [][NextImage]_vars

\* ---------------------------------------------------------------------------
\* SpecDeep: a host session on a chain of nested directories /d, /d/d, ...
\* as deep as the handle pool is large, so that a listing from the root
\* needs one slot more than the pool has.
\* ---------------------------------------------------------------------------

\* the path of the n-th directory of the chain
Deep(n) == [i \in 1..(2 * n) |-> IF i % 2 = 1 THEN "/" ELSE "d"]

DeepCreate ==
    \E o \in [blockSize : {512}, blockCount : {16}, lookaheadSize : {Undef},
              formatOnInit : {TRUE}, diskVersion : {Undef}] :
        /\ last.op = "idle"
        /\ \E k \in FaultsIn(createLittleFS(Cur(NoFault), o, FALSE)) :
               Created("createLittleFS", <<o, FALSE>>, k, createLittleFS(Cur(k), o, FALSE))

\* the chain, and "/d/s" beside its second directory
DeepPaths == {Deep(n) : n \in 1..MAX_DIRS} \cup {P_ds}

DeepMkdir ==
    \E p \in DeepPaths :
        /\ last.op = "idle" /\ impl
        /\ \E k \in FaultsIn(mkdir(Cur(NoFault), p)) :
               Returned("mkdir", <<p>>, k, mkdir(Cur(k), p))
        /\ UNCHANGED impl

DeepList ==
    \E p \in {P_root, P_d, P_a} :
        /\ last.op = "idle" /\ impl
        /\ \E k \in FaultsIn(list(Cur(NoFault), p)) :
               Returned("list", <<p>>, k, list(Cur(k), p))
        /\ UNCHANGED impl

NextDeep == DeepCreate \/ DeepMkdir \/ DeepList \/ Observe

SpecDeep == Init /\ [][NextDeep]_vars

\* ------------------------------------------------------------------------
\* SpecDev: the block device.  The store is set up by lfs_wasm_init, by
\* lfs_wasm_init_from_image and by createLittleFSFromImage, and the three
\* callbacks of the configuration are applied to block numbers, offsets and
\* sizes inside the store, at its end, past its end, and large enough for
\* block * block_size to pass 2^32.
\* ------------------------------------------------------------------------
\* a geometry whose product is 2^32 among them
DevGeometries == {<<4096, 16>>, <<512, 16>>, <<65536, 65536>>}

DevRanges == {<<0, 0>>, <<15, 511>>, <<15, 4095>>, <<16, 0>>, <<1048576, 0>>}

\* images of 2^20 bytes and of 16 blocks of 512 bytes and 100 bytes more
ImgMega == [len |-> 1048576, mem |-> {<<0, 76>>, <<1048575, 1>>}]
ImgOdd == [len |-> 8292, mem |-> {<<0, 76>>, <<8191, 2>>, <<8291, 3>>}]
DevImages == {ImgShort, ImgOdd, ImgMega, ImgWithFile}

DevInit ==
    \E g \in DevGeometries, oom \in BOOLEAN :
        /\ last.op = "idle"
        /\ \E k \in FaultsIn(lfs_wasm_init(Cur(NoFault), g[1], g[2], 0, oom)) :
               RawReturned("lfs_wasm_init", <<g[1], g[2], oom>>, k,
                           lfs_wasm_init(Cur(k), g[1], g[2], 0, oom), <<>>)
        /\ UNCHANGED impl

DevInitFromImage ==
    \E img \in DevImages, bs \in {0, 512}, bc \in {0, 32}, oom \in BOOLEAN :
        /\ last.op = "idle"
        /\ \E k \in FaultsIn(lfs_wasm_init_from_image(Cur(NoFault), img, bs, bc, 0, oom)) :
               RawReturned("lfs_wasm_init_from_image", <<img, bs, bc, oom>>, k,
                           lfs_wasm_init_from_image(Cur(k), img, bs, bc, 0, oom), <<>>)
        /\ UNCHANGED impl

DevCreateFromImage ==
    \E img \in DevImages, o \in [blockSize : {Undef, 512}], oom \in BOOLEAN :
        /\ last.op = "idle"
        /\ \E k \in FaultsIn(createLittleFSFromImage(Cur(NoFault), img, o, oom)) :
               Created("createLittleFSFromImage", <<img, o, oom>>, k,
                       createLittleFSFromImage(Cur(k), img, o, oom))

\* the engine's cfg.read(&cfg, block, off, buffer, size)
DevRead ==
    \E g \in DevRanges, size \in {1, 2} :
        /\ last.op = "idle"
        /\ Bind(ram_read(CurM, g[1], g[2], size), LAMBDA r :
                RawReturned("ram_read", <<g[1], g[2], size>>, NoFault,
                            [H |-> Cur(NoFault), ret |-> r.ret], r.data))
        /\ UNCHANGED impl

\* cfg.prog(&cfg, block, off, buffer, size)
DevProg ==
    \E g \in DevRanges, bytes \in {<<7>>, <<7, 8>>} :
        /\ last.op = "idle"
        /\ Bind(ram_prog(CurM, g[1], g[2], bytes), LAMBDA r :
                RawReturned("ram_prog", <<g[1], g[2], Len(bytes), bytes>>, NoFault,
                            [H |-> [Cur(NoFault) EXCEPT !.M = r.M], ret |-> r.ret], <<>>))
        /\ UNCHANGED impl

\* cfg.erase(&cfg, block)
DevErase ==
    \E g \in DevRanges :
        /\ last.op = "idle"
        /\ Bind(ram_erase(CurM, g[1]), LAMBDA r :
                RawReturned("ram_erase", <<g[1], 0, CurM.cfg.block_size>>, NoFault,
                            [H |-> [Cur(NoFault) EXCEPT !.M = r.M], ret |-> r.ret], <<>>))
        /\ UNCHANGED impl

\* cfg.sync(&cfg)
DevSync ==
    /\ last.op = "idle"
    /\ Bind(ram_sync(CurM), LAMBDA r :
            RawReturned("ram_sync", <<>>, NoFault,
                        [H |-> [Cur(NoFault) EXCEPT !.M = r.M], ret |-> r.ret], <<>>))
    /\ UNCHANGED impl

NextDev ==
    \/ DevInit
    \/ DevInitFromImage
    \/ DevCreateFromImage
    \/ DevRead
    \/ DevProg
    \/ DevErase
    \/ DevSync
    \/ Observe

SpecDev == Init /\ [][NextDev]_vars

\* ------------------------------------------------------------------------
\* SpecShared: a host that holds a LittleFSImpl and also calls the exported
\* functions of the module behind it.  loadModule caches the module, so
\* every LittleFSImpl and every raw call work on the same statics.
\* ------------------------------------------------------------------------
NextShared ==
    \/ ImgCreate
    \/ RawInit
    \/ RawInitFromImage
    \/ RawFormat
    \/ RawMount
    \/ RawUnmount
    \/ RawDirOpen
    \/ ImgWriteFile
    \/ Format
    \/ List
    \/ Destroy
    \/ Observe

SpecShared == Init /\ [][NextShared]_vars

\* ------------------------------------------------------------------------
\* SpecErr: checkError applied to the statuses a raw call can return and to
\* the contexts the wrapper passes
\* ------------------------------------------------------------------------
\* the statuses run from -MaxErrno to MaxCount
MaxErrno == 40
MaxCount == 3
Statuses == (0 - MaxErrno)..MaxCount
Contexts == {<<"init">>, <<"mount after format">>, <<"read file", P_a>>}

CheckError ==
    \E code \in Statuses, context \in Contexts :
        /\ last.op = "idle"
        /\ last' = [Idle EXCEPT !.op = "checkError", !.args = <<code, context>>,
                                !.ret = code, !.err = checkError(code, context)]
        /\ UNCHANGED <<statics, heap, bad, impl, image, live_opens>>

NextErr == CheckError \/ Observe

SpecErr == Init /\ [][NextErr]_vars

\* ------------------------------------------------------------------------
\* SpecLife: the life cycle of the one store and the one session.  Only
\* lfs_wasm_init, lfs_wasm_init_from_image, lfs_wasm_mount, lfs_wasm_unmount,
\* lfs_wasm_format and lfs_wasm_cleanup are called, in any order, with an
\* allocation or an engine call that may fail, on the geometries and images
\* of SpecDev.
\* ------------------------------------------------------------------------
NextLife ==
    \/ DevInit
    \/ DevInitFromImage
    \/ RawMount
    \/ RawUnmount
    \/ RawFormat
    \/ RawCleanup
    \/ Observe

SpecLife == Init /\ [][NextLife]_vars

\* ------------------------------------------------------------------------
\* SpecPrune: a host that deletes recursively on the chain of SpecDeep.
\* "/a" is a regular file, "/d" heads the chain of nested directories, and
\* delete(path, {recursive: true}) is called on "/", "/a", "/d" and "/d/s".
\* ------------------------------------------------------------------------
PruneWriteFile ==
    \E d \in {<<7>>} :
        /\ last.op = "idle" /\ impl
        /\ \E k \in FaultsIn(writeFile(Cur(NoFault), P_a, d)) :
               Returned("writeFile", <<P_a, d>>, k, writeFile(Cur(k), P_a, d))
        /\ UNCHANGED impl

PruneDelete ==
    \E p \in {P_root, P_a, P_d, P_ds}, rec \in BOOLEAN :
        /\ last.op = "idle" /\ impl
        /\ \E k \in FaultsIn(delete(Cur(NoFault), p, rec)) :
               Returned("delete", <<p, rec>>, k, delete(Cur(k), p, rec))
        /\ UNCHANGED impl

NextPrune == DeepCreate \/ DeepMkdir \/ PruneWriteFile \/ PruneDelete \/ Observe

SpecPrune == Init /\ [][NextPrune]_vars

\* ------------------------------------------------------------------------
\* A host that opens and closes directories through the exported functions
\* until the pool of MAX_DIRS slots is full ("/" exists, "/d" does not)
\* ------------------------------------------------------------------------
PoolDirOpen ==
    \E p \in {P_root, P_d} :
        /\ last.op = "idle"
        /\ \E k \in FaultsIn(lfs_wasm_dir_open(Cur(NoFault), p)) :
               RawReturned("lfs_wasm_dir_open", <<p>>, k, lfs_wasm_dir_open(Cur(k), p), <<>>)
        /\ UNCHANGED impl

PoolDirClose ==
    \E h \in -1..MAX_DIRS :
        /\ last.op = "idle"
        /\ \E k \in FaultsIn(lfs_wasm_dir_close(Cur(NoFault), h)) :
               RawReturned("lfs_wasm_dir_close", <<h>>, k, lfs_wasm_dir_close(Cur(k), h), <<>>)
        /\ UNCHANGED impl

NextPool ==
    \/ RawInit
    \/ RawFormat
    \/ RawMount
    \/ RawUnmount
    \/ PoolDirOpen
    \/ PoolDirClose
    \/ Observe

SpecPool == Init /\ [][NextPool]_vars

\* ------------------------------------------------------------------------
\* Properties
\* ------------------------------------------------------------------------
\* the context the call that has just returned started from
Before == last.pre[1]

RawFsOps ==
    {"lfs_wasm_mkdir", "lfs_wasm_remove", "lfs_wasm_rename", "lfs_wasm_stat",
     "lfs_wasm_dir_open", "lfs_wasm_write_file", "lfs_wasm_read_file",
     "lfs_wasm_file_size", "lfs_wasm_fs_stat", "lfs_wasm_get_fs_info"}

\* C1: when the session is not mounted, each of the raw operations mkdir,
\* remove, rename, stat, dir_open, write_file, read_file, file_size, fs_stat
\* and get_fs_info returns LFS_ERR_INVAL, makes no engine call and leaves
\* every static (the store, the mounted flag, the directory slots) as it was.
C1_NotMountedIsInval ==
    (last.op \in RawFsOps /\ ~Before.M.mounted) =>
        /\ last.ret = LFS_ERR_INVAL
        /\ last.calls = <<>>
        /\ last.value = <<>>
        /\ CurM = Before.M

\* C1: a raw write_file was refused on a session that has a store but is not
\* mounted
C1_RefusedWithStore ==
    /\ last.op = "lfs_wasm_write_file"
    /\ ~Before.M.mounted
    /\ ~Before.M.ram_storage.null
    /\ last.ret = LFS_ERR_INVAL

\* C2: createLittleFS(options), when no allocation and no engine call fails,
\* returns a handle and leaves the session mounted, for every choice of
\* options.
C2_CreateMounts ==
    (last.op = "createLittleFS" /\ ~last.args[2] /\ last.k = NoFault) =>
        (~last.err.thrown /\ last.value = <<TRUE>> /\ mounted)

\* C2: createLittleFS without formatOnInit threw the engine's status for a
\* store that holds no filesystem, and the session is not mounted
C2_ErasedStoreNotMounted ==
    /\ last.op = "createLittleFS"
    /\ ~last.args[1].formatOnInit /\ ~last.args[2] /\ last.k = NoFault
    /\ last.err.thrown /\ last.err.code = LFS_ERR_CORRUPT
    /\ last.err.context = <<"mount">>
    /\ ~mounted /\ ram_storage = [null |-> FALSE, mem |-> {}]

HostOps ==
    {"list", "writeFile", "readFile", "delete", "mkdir", "rename", "getUsage",
     "getDiskVersion", "createLittleFSFromImage", "createLittleFS", "format",
     "toImage", "destroy"}

\* C3: every host method and both factories leave the set of buffers that
\* are allocated and not freed as it was before the call, whatever the raw
\* calls returned, and free no buffer that is not allocated.
C3_BuffersReleased ==
    last.op \in HostOps => (heap = Before.heap /\ ~bad)

\* C3: a listing threw from a nested directory, after the outer directory
\* was open
C3_NestedListingThrew ==
    /\ last.op = "list"
    /\ last.err.thrown
    /\ Occurrences(last.calls, "lfs_dir_open") = 2
    /\ heap = {}

\* C4: after a writeFile(path, bytes) that returned without error, a
\* readFile(path) returns exactly bytes, on a first write and on a write over
\* longer content alike.
C4_WriteThenRead ==
    (last.op = "writeFile" /\ ~last.err.thrown) =>
        Bind(readFile(Cur(NoFault), last.args[1]), LAMBDA r :
             ~r.err.thrown /\ r.value = last.args[2])

\* C4: a writeFile over longer content returned without error although the
\* engine's close failed, and the file still reads as the old content
C4_CloseFailureDropped ==
    /\ last.op = "writeFile" /\ ~last.err.thrown
    /\ last.args[2] = <<7>>
    /\ last.calls[Len(last.calls)].fn = "lfs_file_close"
    /\ last.calls[Len(last.calls)].ret = LFS_ERR_NOSPC
    /\ readFile(Cur(NoFault), last.args[1]).value = <<1, 2>>

\* the prefixes of path that end before a '/' other than the first character,
\* shortest first
RECURSIVE AncestorsFrom(_, _)
AncestorsFrom(path, i) ==
    IF i > Len(path) THEN <<>>
    ELSE (IF path[i] = "/" THEN <<SubSeq(path, 1, i - 1)>> ELSE <<>>)
         \o AncestorsFrom(path, i + 1)

Ancestors(path) == AncestorsFrom(path, 2)

C6_SecondMkdirSucceeds ==
    (/\ last.op = "mkdir" /\ last.k = NoFault /\ Before.M.mounted
     /\ IsDirAt(Before.M.lfs.tree, Components(last.args[1])))
    => (~last.err.thrown /\ CurM = Before.M)

\* C6: the second mkdir threw: the engine's already-exists status is not the
\* -4 the wrapper lets pass, and the message is the one the table has for -17
C6_SecondMkdirThrew ==
    /\ last.op = "mkdir" /\ last.k = NoFault
    /\ IsDirAt(Before.M.lfs.tree, Components(last.args[1]))
    /\ last.calls = <<[fn |-> "lfs_mkdir", arg |-> last.args[1], ret |-> LFS_ERR_EXIST]>>
    /\ last.err.thrown /\ last.err.code = -17
    /\ last.err.text = <<"No attribute available">>
    /\ CurM = Before.M

\* the path of the directory that holds the entry at path p
LastSlash(p) == CHOOSE i \in 1..Len(p) : p[i] = "/" /\ \A j \in (i + 1)..Len(p) : p[j] # "/"
ParentPath(p) == IF LastSlash(p) = 1 THEN P_root ELSE SubSeq(p, 1, LastSlash(p) - 1)

\* p names something below the directory dir
IsUnder(dir, p) ==
    IF dir = P_root THEN Len(p) > 1 /\ p[1] = "/"
    ELSE Len(p) > Len(dir) + 1 /\ IsPrefix(dir \o <<"/">>, p)

\* no empty name in p: no two '/' in a row and none at the end
SingleSlashes(p) ==
    /\ p[Len(p)] # "/"
    /\ \A i \in 1..(Len(p) - 1) : ~(p[i] = "/" /\ p[i + 1] = "/")

\* C7: in the array list(basePath) returns, every path is basePath joined
\* with names by single '/' and no path is repeated; every directory entry
\* has size 0; an entry that is not a direct child of basePath comes after the
\* entry of its parent directory; and the descendants of a directory follow
\* its entry with nothing else in between (depth-first pre-order).  When no
\* engine call failed, every path listed is an entry of the tree.
C7_ListIsPreOrder ==
    (last.op = "list" /\ ~last.err.thrown) =>
        \A i \in 1..Len(last.value) :
            Bind(last.value[i].path, LAMBDA p :
                /\ IsUnder(last.args[1], p) /\ SingleSlashes(p)
                /\ \A j \in 1..(i - 1) : last.value[j].path # p
                /\ last.value[i].type = "dir" => last.value[i].size = 0
                /\ ParentPath(p) # last.args[1] =>
                       \E j \in 1..(i - 1) : /\ last.value[j].path = ParentPath(p)
                                             /\ last.value[j].type = "dir"
                /\ \A j \in 1..(i - 1) :
                       IsUnder(last.value[j].path, p) =>
                           \A m \in (j + 1)..i : IsUnder(last.value[j].path, last.value[m].path)
                /\ last.k = NoFault => Exists(Before.M.lfs.tree, Components(p)))

\* C7: list("/") returned a file, a directory, its subdirectory and the file
\* in that subdirectory, in this order
C7_NestedListing ==
    /\ last.op = "list" /\ ~last.err.thrown /\ last.args[1] = P_root
    /\ Len(last.value) = 4
    /\ last.value[1] = [path |-> P_a, size |-> 2, type |-> "file"]
    /\ last.value[2] = [path |-> P_d, size |-> 0, type |-> "dir"]
    /\ last.value[3] = [path |-> P_ds, size |-> 0, type |-> "dir"]
    /\ last.value[4] = [path |-> P_dsx, size |-> 1, type |-> "file"]

\* the positions in the calls of the last operation where the engine's
\* remove was called
RemoveCalls == {i \in 1..Len(last.calls) : last.calls[i].fn = "lfs_remove"}

\* C8: delete(path, {recursive: true}) on a directory calls the engine's
\* remove on a descendant before it calls it on any ancestor of that
\* descendant, and on path itself last of all; when no engine call failed a
\* remove is issued for every descendant; and when delete returns without
\* error the listing of the parent holds neither path nor anything below it.
C8_DescendantsRemovedFirst ==
    (/\ last.op = "delete" /\ last.args[2] /\ Before.M.mounted
     /\ IsDirAt(Before.M.lfs.tree, Components(last.args[1]))
     /\ last.args[1] # P_root)
    =>
    /\ \A i \in RemoveCalls, j \in RemoveCalls :
           IsUnder(last.calls[j].arg, last.calls[i].arg) => i < j
    /\ \A i \in RemoveCalls : last.calls[i].arg = last.args[1] => i = Len(last.calls)
    /\ last.k = NoFault =>
           /\ last.calls[Len(last.calls)].arg = last.args[1]
           /\ \A e \in Before.M.lfs.tree :
                  (IsPrefix(Components(last.args[1]), e.path)
                   /\ e.path # Components(last.args[1]))
                  => \E i \in RemoveCalls : Components(last.calls[i].arg) = e.path
    /\ ~last.err.thrown =>
           Bind(list(Cur(NoFault), ParentPath(last.args[1])), LAMBDA l :
                /\ ~l.err.thrown
                /\ \A n \in 1..Len(l.value) :
                       /\ l.value[n].path # last.args[1]
                       /\ ~IsUnder(last.args[1], l.value[n].path))

\* C8: delete("/d", {recursive: true}) returned without error after the
\* removes of /d/s/x, /d/s and /d, in this order
C8_TreeDeleted ==
    /\ last.op = "delete" /\ last.args = <<P_d, TRUE>> /\ ~last.err.thrown
    /\ Cardinality(RemoveCalls) = 3
    /\ \E i \in RemoveCalls :
           /\ last.calls[i].arg = P_dsx
           /\ last.calls[i + 1].arg = P_ds
           /\ last.calls[i + 2].arg = P_d

\* C9: in delete(path, {recursive: true}) whose listing returned, the engine's
\* remove is called once for every entry listed, whatever the earlier removes
\* returned, and then once for path; delete throws exactly when that last
\* remove returns a negative status, and the LittleFSError carries that
\* status.  When the listing throws, delete throws the same error and removes
\* nothing.
C9_SweepErrorsDropped ==
    (last.op = "delete" /\ last.args[2]) =>
        Bind(list(Before, last.args[1]), LAMBDA l :
             IF l.err.thrown THEN last.err = l.err /\ RemoveCalls = {}
             ELSE Bind(Len(l.H.calls), LAMBDA first :
                  /\ Len(last.calls) = first + Len(l.value) + 1
                  /\ RemoveCalls = (first + 1)..Len(last.calls)
                  /\ {last.calls[first + i].arg : i \in 1..Len(l.value)}
                         = {l.value[i].path : i \in 1..Len(l.value)}
                  /\ last.calls[Len(last.calls)].arg = last.args[1]
                  /\ last.err.thrown = (last.calls[Len(last.calls)].ret < 0)
                  /\ last.err.thrown =>
                         /\ last.err.code = last.calls[Len(last.calls)].ret
                         /\ last.err.context = <<"delete", last.args[1]>>))

\* C9: the remove of a descendant failed, the sweep went on to another
\* descendant, and the failure of the final remove was thrown
C9_SweepWentOnFinalThrown ==
    /\ last.op = "delete" /\ last.args[2] /\ last.err.thrown
    /\ \E i \in RemoveCalls, j \in RemoveCalls :
           /\ i < j /\ j < Len(last.calls)
           /\ last.calls[i].ret < 0
    /\ last.err.code = LFS_ERR_NOTEMPTY
    /\ last.calls[Len(last.calls)].ret = LFS_ERR_NOTEMPTY

C11_ExportIsCopy ==
    [][/\ (last.op = "idle" /\ last'.op = "toImage") =>
              /\ statics' = statics /\ heap' = heap /\ bad' = bad
              /\ ~last'.err.thrown
              /\ ~ram_storage.null =>
                     /\ last'.value.len = storage_size
                     /\ last'.value.mem = ram_storage.mem
       /\ (image # <<>> /\ image' = image) => HeldBytes' = HeldBytes]_vars

\* C11: the host keeps the image of a mounted store, a later writeFile has
\* changed the store, and the image still holds the bytes of the export
C11_StoreMovedOn ==
    /\ image # <<>> /\ image[1].len = 8192 /\ image[1].mem # {}
    /\ last.op = "writeFile" /\ ~last.err.thrown
    /\ mounted /\ ram_storage.mem # image[1].mem
    /\ HeldBytes = image[1].mem

\* C12: after a createLittleFS with diskVersion 0x00020000 and formatOnInit
\* that returned a handle, getDiskVersion() returns 0x00020000; and a
\* createLittleFSFromImage of the toImage() of that filesystem returns a
\* handle whose getDiskVersion() returns 0x00020000 too.
C12_PinnedVersionKept ==
    (/\ last.op = "createLittleFS" /\ ~last.err.thrown
     /\ last.args[1].diskVersion = DISK_VERSION_2_0 /\ last.args[1].formatOnInit)
    =>
    /\ getDiskVersion(Cur(NoFault)).value = <<DISK_VERSION_2_0>>
    /\ Bind(createLittleFSFromImage(Cur(NoFault), toImage(Cur(NoFault), {}).value,
                                    [blockSize |-> block_size], FALSE),
            LAMBDA r : /\ ~r.err.thrown
                       /\ getDiskVersion(r.H).value = <<DISK_VERSION_2_0>>)

\* C12: createLittleFS with diskVersion 0x00020000 and formatOnInit returned
\* a handle, the setting is 0x00020000, and the filesystem the engine
\* formatted reports 0x00020001
C12_FormattedAsLatest ==
    /\ last.op = "createLittleFS" /\ ~last.err.thrown
    /\ last.args[1].diskVersion = DISK_VERSION_2_0 /\ last.args[1].formatOnInit
    /\ disk_version = DISK_VERSION_2_0 /\ cfg.disk_version = 0
    /\ getDiskVersion(Cur(NoFault)).value = <<DISK_VERSION_2_1>>

\* C13: lfs_wasm_set_disk_version(v) changes the disk_version setting to v
\* (lfs_wasm_get_disk_version returns v) and no other static; and an
\* lfs_wasm_init or lfs_wasm_init_from_image that returns 0 leaves an engine
\* configuration whose disk_version equals the setting.
C13_SettingReachesConfig ==
    /\ last.op = "lfs_wasm_set_disk_version" =>
           /\ lfs_wasm_get_disk_version(Cur(NoFault)).ret = last.args[1]
           /\ CurM = [Before.M EXCEPT !.disk_version = last.args[1]]
    /\ (last.op \in {"lfs_wasm_init", "lfs_wasm_init_from_image"} /\ last.ret = 0) =>
           cfg.disk_version = disk_version

\* C13: an lfs_wasm_init made after lfs_wasm_set_disk_version(0x00020000)
\* returned 0 and the disk_version of the configuration it built is 0
C13_ConfigIgnoresSetting ==
    /\ last.op = "lfs_wasm_init" /\ last.ret = 0
    /\ disk_version = DISK_VERSION_2_0
    /\ cfg.disk_version = 0

\* C14: on a mounted session, a dir_open made with all MAX_DIRS slots in use
\* returns LFS_ERR_NOMEM without calling the engine and leaves every static
\* (every slot and cursor) as it was, and each of the handles 0..MAX_DIRS-1
\* can then be read and closed; a dir_open of an existing directory made
\* with a slot free, when the engine does not fail, returns the lowest free
\* slot and marks that slot and no other.
C14_PoolExhaustion ==
    (last.op = "lfs_wasm_dir_open" /\ Before.M.mounted) =>
        IF \A i \in 0..(MAX_DIRS - 1) : Before.M.dir_in_use[i]
        THEN /\ last.ret = LFS_ERR_NOMEM /\ last.calls = <<>> /\ CurM = Before.M
             /\ \A h \in 0..(MAX_DIRS - 1) :
                    /\ lfs_wasm_dir_read(Cur(NoFault), h).ret >= 0
                    /\ Bind(lfs_wasm_dir_close(Cur(NoFault), h), LAMBDA c :
                            c.ret = 0 /\ ~c.H.M.dir_in_use[h])
        ELSE (last.k = NoFault /\ IsDirAt(Before.M.lfs.tree, Components(last.args[1]))) =>
                 /\ last.ret \in 0..(MAX_DIRS - 1)
                 /\ ~Before.M.dir_in_use[last.ret]
                 /\ \A j \in 0..(last.ret - 1) : Before.M.dir_in_use[j]
                 /\ dir_in_use = [Before.M.dir_in_use EXCEPT ![last.ret] = TRUE]

\* C14: a dir_open was refused with LFS_ERR_NOMEM on a mounted session, all
\* MAX_DIRS slots being in use
C14_NinthOpenRefused ==
    /\ last.op = "lfs_wasm_dir_open" /\ last.ret = LFS_ERR_NOMEM
    /\ mounted /\ Cardinality(InUse) = MAX_DIRS /\ live_opens = MAX_DIRS

\* C15: a dir_open that returns an error leaves every in-use flag as it was;
\* a dir_close of a handle in use clears the flag of that slot, and of no
\* other, whatever the engine's close returned; and the number of slots in
\* use is at all times the number of opens that returned a handle less the
\* number of closes of a handle in use, counted from the last initialize
\* that succeeded.
C15_SlotsPaired ==
    /\ Cardinality(InUse) = live_opens
    /\ (last.op = "lfs_wasm_dir_open" /\ last.ret < 0) =>
           dir_in_use = Before.M.dir_in_use
    /\ (/\ last.op = "lfs_wasm_dir_close" /\ last.args[1] \in 0..(MAX_DIRS - 1)
        /\ Before.M.dir_in_use[last.args[1]])
       => dir_in_use = [Before.M.dir_in_use EXCEPT ![last.args[1]] = FALSE]

\* C15: the engine's close failed and the slot was released all the same,
\* other slots staying in use
C15_ReleasedThoughCloseFailed ==
    /\ last.op = "lfs_wasm_dir_close" /\ last.ret = LFS_ERR_IO
    /\ Before.M.dir_in_use[last.args[1]] /\ ~dir_in_use[last.args[1]]
    /\ Cardinality(InUse) = 2 /\ live_opens = 2

\* C16: when list(basePath) has returned or thrown, whatever the tree and
\* whatever failed (the open, a read, or the pool running out of slots in a
\* nested level), the slots in use are exactly those in use before the call
\* and every directory it opened has been closed.
C16_ListReleasesSlots ==
    last.op = "list" =>
        /\ dir_in_use = Before.M.dir_in_use
        /\ Occurrences(last.calls, "lfs_dir_close")
               = Cardinality({j \in 1..Len(last.calls) :
                                 last.calls[j].fn = "lfs_dir_open" /\ last.calls[j].ret >= 0})

\* C16: a listing from the root used all MAX_DIRS slots, was refused the
\* next one in the deepest level and threw; no slot is in use afterwards
C16_NestedLevelExhausted ==
    /\ last.op = "list" /\ last.err.thrown /\ last.err.code = LFS_ERR_NOMEM
    /\ last.err.context = <<"open directory", Deep(MAX_DIRS)>>
    /\ Occurrences(last.calls, "lfs_dir_close") = MAX_DIRS
    /\ InUse = {}

\* the bytes block * block_size + off .. + size of a call lie inside the
\* store of M, in exact arithmetic
DevInside(M, block, off, size) ==
    /\ ~M.ram_storage.null
    /\ M.cfg.block_size > 0
    /\ block <= M.storage_size \div M.cfg.block_size
    /\ block * M.cfg.block_size + off + size <= M.storage_size

\* C17: after an initialize that succeeded storage_size is block_size times
\* block_count, and a read, program or erase of the block device whose bytes
\* do not all lie inside the store returns LFS_ERR_IO, hands out no byte and
\* leaves the store as it was, also when block * block_size + off or
\* block_size * block_count passes 2^32.
C17_OutOfRangeRefused ==
    /\ (last.op = "lfs_wasm_init" /\ last.ret = 0) =>
           /\ storage_size % block_size = 0
           /\ storage_size \div block_size = block_count
    /\ (/\ last.op \in {"ram_read", "ram_prog", "ram_erase"}
        /\ ~DevInside(Before.M, last.args[1], last.args[2], last.args[3]))
       => /\ last.ret = LFS_ERR_IO
          /\ last.value = <<>>
          /\ ram_storage = Before.M.ram_storage

C19_StoreIsImage ==
    /\ (last.op = "lfs_wasm_init_from_image" /\ last.ret = 0) =>
           /\ ~ram_storage.null
           /\ ram_storage.mem = {p \in last.args[1].mem :
                                    p[1] < Min(last.args[1].len, storage_size)}
    /\ last.op = "createLittleFSFromImage" =>
           /\ Occurrences(last.calls, "lfs_format") = 0
           /\ ~last.err.thrown =>
                  /\ mounted
                  /\ ram_storage.mem = {p \in last.args[1].mem :
                                           p[1] < Min(last.args[1].len, storage_size)}

\* C19: an image shorter than the store was taken in: its bytes are there and
\* the store goes on past them
C19_ShortImagePadded ==
    /\ last.op = "lfs_wasm_init_from_image" /\ last.ret = 0
    /\ last.args[1] = ImgOdd /\ storage_size = 16384
    /\ ram_storage.mem = ImgOdd.mem

\* the engine function fn was called in the last step and returned 0
EngineOk(fn) == \E j \in 1..Len(last.calls) : last.calls[j].fn = fn /\ last.calls[j].ret = 0

\* C20: lfs_wasm_mount without a store returns LFS_ERR_INVAL; lfs_wasm_mount
\* on a mounted session and lfs_wasm_unmount on one that is not mounted
\* return 0, make no engine call and change no static; whatever the call,
\* mounted turns true only in a step in which the engine's mount returned 0,
\* and lfs_wasm_unmount turns it false exactly when the engine's unmount
\* returned 0.
C20_MountUnmountGuarded ==
    /\ last.op = "lfs_wasm_mount" =>
           /\ Before.M.ram_storage.null =>
                  last.ret = LFS_ERR_INVAL /\ last.calls = <<>> /\ CurM = Before.M
           /\ (~Before.M.ram_storage.null /\ Before.M.mounted) =>
                  last.ret = 0 /\ last.calls = <<>> /\ CurM = Before.M
           /\ (~Before.M.ram_storage.null /\ ~Before.M.mounted) =>
                  /\ Len(last.calls) = 1 /\ last.calls[1].fn = "lfs_mount"
                  /\ last.ret = last.calls[1].ret
                  /\ mounted <=> last.ret = 0
    /\ last.op = "lfs_wasm_unmount" =>
           /\ ~Before.M.mounted =>
                  last.ret = 0 /\ last.calls = <<>> /\ CurM = Before.M
           /\ Before.M.mounted =>
                  /\ Len(last.calls) = 1 /\ last.calls[1].fn = "lfs_unmount"
                  /\ last.ret = last.calls[1].ret
                  /\ mounted <=> last.ret # 0
    /\ (last.op # "idle" /\ mounted /\ ~Before.M.mounted) => EngineOk("lfs_mount")

\* C20: the engine's unmount failed and the session is still mounted
C20_FailedUnmountStaysMounted ==
    /\ last.op = "lfs_wasm_unmount" /\ last.ret = LFS_ERR_IO
    /\ Before.M.mounted /\ mounted

HostPathOps == {"list", "writeFile", "readFile", "delete", "mkdir", "rename"}

C22_FormatThenMount ==
    /\ last.op = "lfs_wasm_format" =>
           /\ Before.M.ram_storage.null =>
                  last.ret = LFS_ERR_INVAL /\ last.calls = <<>> /\ CurM = Before.M
           /\ ~Before.M.ram_storage.null =>
                  /\ ~mounted
                  /\ Len(last.calls) = (IF Before.M.mounted THEN 2 ELSE 1)
                  /\ Before.M.mounted => last.calls[1].fn = "lfs_unmount"
                  /\ last.calls[Len(last.calls)].fn = "lfs_format"
                  /\ last.ret = last.calls[Len(last.calls)].ret
    /\ last.op = "format" =>
           /\ ~last.err.thrown =>
                  /\ mounted
                  /\ ~list(Cur(NoFault), P_root).err.thrown
                  /\ list(Cur(NoFault), P_root).value = <<>>
           /\ last.err.thrown => ~mounted

\* C22: format() returned on a mounted filesystem that held a file
C22_FormattedAwayFile ==
    /\ last.op = "format" /\ ~last.err.thrown
    /\ Before.M.mounted /\ Before.M.lfs.tree # {}
    /\ mounted /\ lfs.tree = {}

RawInitOps == {"lfs_wasm_init", "lfs_wasm_init_from_image"}

\* C23: lfs_wasm_init or lfs_wasm_init_from_image that returns 0 while a
\* store exists calls the engine's unmount when the session is mounted and
\* makes no other engine call, and leaves the session not mounted, every
\* directory slot free and one store of the new geometry that holds nothing
\* of the old one: 0xFF everywhere after lfs_wasm_init, the bytes of the
\* image after lfs_wasm_init_from_image.  A method of a LittleFSImpl works
\* on the store that exists when it is called: a writeFile that returns, no
\* engine call having failed, has written the file to the current store,
\* whatever geometry the LittleFSImpl was created with.
C23_OneStoreOneSession ==
    /\ (last.op \in RawInitOps /\ last.ret = 0 /\ ~Before.M.ram_storage.null) =>
           /\ ~mounted /\ ~ram_storage.null
           /\ \A i \in 0..(MAX_DIRS - 1) : ~dir_in_use[i]
           /\ Len(last.calls) = (IF Before.M.mounted THEN 1 ELSE 0)
           /\ Before.M.mounted => last.calls[1].fn = "lfs_unmount"
           /\ storage_size = Mul32(block_size, block_count)
           /\ cfg.block_size = block_size /\ cfg.block_count = block_count
           /\ last.op = "lfs_wasm_init" => ram_storage.mem = {}
           /\ last.op = "lfs_wasm_init_from_image" =>
                  ram_storage.mem = {p \in last.args[1].mem : p[1] < storage_size}
    /\ (last.op = "writeFile" /\ ~last.err.thrown /\ last.k = NoFault) =>
           /\ mounted
           /\ readFile(Cur(NoFault), last.args[1]).value = last.args[2]
           /\ DecodeImage(CurM).ret = 0
           /\ DecodeImage(CurM).tree = lfs.tree
           /\ DecodeImage(CurM).bs = block_size

\* C23: a LittleFSImpl created on 16 blocks of 512 bytes wrote a file after
\* lfs_wasm_init had replaced that store by one of blocks of 4096 bytes
C23_HandleOnNewStore ==
    /\ last.op = "writeFile" /\ ~last.err.thrown /\ last.k = NoFault
    /\ impl /\ block_size = 4096 /\ storage_size = 65536
    /\ readFile(Cur(NoFault), P_a).value = last.args[2]

C25_ReadMissingIsNoent ==
    (/\ last.op = "readFile" /\ last.k = NoFault /\ Before.M.mounted
     /\ ~Exists(Before.M.lfs.tree, Components(last.args[1]))) =>
        /\ last.err.thrown /\ last.err.code = -3
        /\ last.err.context = <<"read file", last.args[1]>>
        /\ last.err.text = <<"No such file or directory">>
        /\ CurM = Before.M

\* C25: what readFile of a path that does not exist throws: the status of
\* the stat, LFS_ERR_NOENT, under the context of the stat, with the
\* description the table has for -2
C25_ReadMissingThrowsStat ==
    (/\ last.op = "readFile" /\ last.k = NoFault /\ Before.M.mounted
     /\ ~Exists(Before.M.lfs.tree, Components(last.args[1]))) =>
        /\ last.err.thrown /\ last.err.code = LFS_ERR_NOENT
        /\ last.err.context = <<"stat file", last.args[1]>>
        /\ last.err.text = <<"Corrupted filesystem">>
        /\ CurM = Before.M

\* C26: when lfs_wasm_init or lfs_wasm_init_from_image fails because the
\* malloc of the store fails, it returns LFS_ERR_NOMEM and the store that
\* existed before the call, block_size, block_count, storage_size and the
\* mounted flag are as they were before the call.
C26_FailedInitKeepsState ==
    (last.op \in RawInitOps /\ last.ret = LFS_ERR_NOMEM) =>
        /\ ram_storage = Before.M.ram_storage
        /\ block_size = Before.M.block_size
        /\ block_count = Before.M.block_count
        /\ storage_size = Before.M.storage_size
        /\ mounted = Before.M.mounted

\* C26: what a failed allocation leaves: the old store freed, the session
\* not mounted, the geometry of the call that failed
C26_FailedInitDropsStore ==
    (last.op \in RawInitOps /\ last.ret = LFS_ERR_NOMEM) =>
        /\ ram_storage.null /\ ~mounted
        /\ storage_size = Mul32(block_size, block_count)
        /\ cfg = Before.M.cfg /\ dir_in_use = Before.M.dir_in_use

\* C27: whenever the session is not mounted, lfs_wasm_dir_read and
\* lfs_wasm_dir_close return LFS_ERR_INVAL, make no engine call and change no
\* static, also for a handle that was opened while the session was mounted.
C27_DirReadCloseGuarded ==
    (last.op \in {"lfs_wasm_dir_read", "lfs_wasm_dir_close"} /\ ~Before.M.mounted) =>
        /\ last.ret = LFS_ERR_INVAL
        /\ last.calls = <<>>
        /\ CurM = Before.M

\* C27: what the two functions test: the handle only.  On a handle in use
\* the engine is called, mounted or not; otherwise LFS_ERR_INVAL is returned
\* and nothing is done.
C27_HandleAloneDecides ==
    last.op \in {"lfs_wasm_dir_read", "lfs_wasm_dir_close"} =>
        IF /\ last.args[1] \in 0..(MAX_DIRS - 1)
           /\ Before.M.dir_in_use[last.args[1]]
        THEN Len(last.calls) >= 1
        ELSE last.ret = LFS_ERR_INVAL /\ last.calls = <<>> /\ CurM = Before.M

\* the real entries of the directory a cursor is on, in the engine's order
EntriesAt(M, dir) == ChildNames(M.lfs.tree, dir.path)

\* the position of a cursor once it is past "." and ".."
PastDots(dir) == Max(dir.pos, 2)

\* C28: lfs_wasm_dir_read on a handle that is out of range or not in use
\* returns LFS_ERR_INVAL, calls nothing and writes nothing to the output
\* parameters.  On a handle in use it calls only the engine's lfs_dir_read,
\* once for each of "." and ".." the cursor has not passed and once more;
\* it returns 1 and the next real entry of the directory (never "." or
\* ".."), or 0 when no real entry is left, or the negative status of the
\* engine call that failed, and writes the output parameters only when it
\* returns 1.
C28_DirReadSkipsDots ==
    last.op = "lfs_wasm_dir_read" =>
        IF ~(last.args[1] \in 0..(MAX_DIRS - 1)) \/ ~Before.M.dir_in_use[last.args[1]]
        THEN last.ret = LFS_ERR_INVAL /\ last.calls = <<>> /\ last.value = <<>>
             /\ CurM = Before.M
        ELSE LET dir == Before.M.open_dirs[last.args[1]]
                 names == EntriesAt(Before.M, dir)
                 n == Len(last.calls)
             IN  /\ n >= 1
                 /\ \A j \in 1..n : last.calls[j].fn = "lfs_dir_read"
                 /\ \A j \in 1..(n - 1) : last.calls[j].ret = 1
                 /\ last.ret \in {0, 1} \/ last.ret < 0
                 /\ last.ret = 1 <=> last.calls[n].ret = 1
                 /\ last.ret # 1 => last.ret = last.calls[n].ret /\ last.value = <<>>
                 /\ last.ret >= 0 => n = PastDots(dir) - dir.pos + 1
                 /\ last.ret = 0 <=> (last.k = NoFault /\ PastDots(dir) - 1 > Len(names))
                 /\ last.ret = 1 =>
                        /\ last.value[1].name \notin {<<".">>, <<".", ".">>}
                        /\ last.value[1].name = names[PastDots(dir) - 1]
                        /\ open_dirs[last.args[1]].pos = PastDots(dir) + 1
                 /\ last.ret < 0 => last.k.fn = "lfs_dir_read"

\* C28: a read on a fresh cursor went past "." and ".." and returned the
\* first real entry of the directory
C28_SkippedBothDots ==
    /\ last.op = "lfs_wasm_dir_read" /\ last.ret = 1
    /\ Len(last.calls) = 3
    /\ Before.M.open_dirs[last.args[1]].pos = 0
    /\ last.value[1].name = <<"a">>

\* C29: when a directory read returns a negative status at any level while
\* list(basePath) enumerates, list throws a LittleFSError of that status.
C29_ReadErrorThrown ==
    last.op = "list" =>
        \A j \in 1..Len(last.calls) :
            (last.calls[j].fn = "lfs_dir_read" /\ last.calls[j].ret < 0) =>
                last.err.thrown /\ last.err.code = last.calls[j].ret

\* C29: what list does when a directory read fails: the loop of that level
\* ends as at the end of the directory, nothing is thrown, and the listing
\* returned holds entries of the full listing only, without those the level
\* had left
C29_ReadErrorEndsLevel ==
    (last.op = "list" /\ last.k.fn = "lfs_dir_read") =>
        /\ ~last.err.thrown
        /\ \E j \in 1..Len(last.calls) :
               last.calls[j].fn = "lfs_dir_read" /\ last.calls[j].ret = LFS_ERR_CORRUPT
        /\ LET full == list([Before EXCEPT !.k = NoFault], last.args[1]).value
           IN  /\ Len(last.value) <= Len(full)
               /\ \A i \in 1..Len(last.value) :
                      \E m \in 1..Len(full) : full[m] = last.value[i]

\* address a is one of the size bytes at block * block_size + off, in exact
\* arithmetic
InRange(a, block, off, size, bs) ==
    \E i \in 0..(size - 1) :
        /\ a - off - i >= 0
        /\ (a - off - i) % bs = 0
        /\ (a - off - i) \div bs = block

\* the bytes of the store (other than 0xFF) outside a range
Outside(mem, block, off, size, bs) == {p \in mem : ~InRange(p[1], block, off, size, bs)}

C30_InsideFrame ==
    (/\ last.op \in {"ram_erase", "ram_prog"}
     /\ DevInside(Before.M, last.args[1], last.args[2], last.args[3])) =>
        /\ last.ret = 0
        /\ Outside(ram_storage.mem, last.args[1], last.args[2], last.args[3],
                   cfg.block_size)
               = Outside(Before.M.ram_storage.mem, last.args[1], last.args[2],
                         last.args[3], cfg.block_size)
        /\ ReadRange(ram_storage.mem, last.args[1] * cfg.block_size + last.args[2],
                     last.args[3])
               = (IF last.op = "ram_erase" THEN [i \in 1..last.args[3] |-> 255]
                  ELSE last.args[4])

LifeOps ==
    {"lfs_wasm_init", "lfs_wasm_init_from_image", "lfs_wasm_mount",
     "lfs_wasm_unmount", "lfs_wasm_format", "lfs_wasm_cleanup"}

\* C31: in every state reached by lfs_wasm_init, lfs_wasm_init_from_image,
\* lfs_wasm_mount, lfs_wasm_unmount, lfs_wasm_format and lfs_wasm_cleanup,
\* failing calls included, a mounted session has a store, and a store that
\* exists has storage_size = block_size * block_count (in the uint32 the
\* statics have) and storage_size > 0.
C31_StoreBehindSession ==
    /\ mounted => ~ram_storage.null
    /\ ~ram_storage.null =>
           /\ storage_size = Mul32(block_size, block_count)
           /\ storage_size > 0

\* C31, the part that holds: a mounted session has a store, and a store
\* whose block size and block count are both below 2^16, so that their
\* product is below 2^32, has the size of its geometry, which is not 0.
C31_StoreOfGeometry ==
    /\ mounted => ~ram_storage.null
    /\ (~ram_storage.null /\ block_size < 65536 /\ block_count < 65536) =>
           /\ storage_size \div block_size = block_count
           /\ storage_size % block_size = 0
           /\ storage_size > 0
           /\ cfg.block_size = block_size /\ cfg.block_count = block_count

\* C32: whenever the session is not mounted no directory slot is in use:
\* lfs_wasm_unmount, lfs_wasm_format and lfs_wasm_cleanup leave no slot of
\* dir_in_use set, so no handle outlives the session it was opened in.
C32_UnmountedHoldsNoSlot ==
    ~mounted => \A i \in 0..(MAX_DIRS - 1) : ~dir_in_use[i]

\* C32, the part that holds: only a successful lfs_wasm_init or
\* lfs_wasm_init_from_image clears the pool; lfs_wasm_unmount,
\* lfs_wasm_format and lfs_wasm_cleanup leave dir_in_use and open_dirs as
\* they found them.
C32_OnlyInitClearsPool ==
    /\ (last.op \in RawInitOps /\ last.ret = 0) =>
           \A i \in 0..(MAX_DIRS - 1) : ~dir_in_use[i]
    /\ last.op \in {"lfs_wasm_unmount", "lfs_wasm_format", "lfs_wasm_cleanup"} =>
           /\ dir_in_use = Before.M.dir_in_use
           /\ open_dirs = Before.M.open_dirs

\* the engine directories list holds open after the first j calls of its
\* trace: the opens that succeeded less the closes
HeldAfter(calls, j) ==
    Cardinality({x \in 1..j : calls[x].fn = "lfs_dir_open" /\ calls[x].ret = 0})
        - Cardinality({x \in 1..j : calls[x].fn = "lfs_dir_close"})

\* the level of the directory dirPath in a listing of basePath: 1 for
\* basePath itself
Level(dirPath, basePath) == Len(Components(dirPath)) - Len(Components(basePath)) + 1

\* the length of the longest chain of nested directories below the
\* directory base of the tree
Nested(tree, base) ==
    LET below == {e \in tree : /\ e.type = LFS_TYPE_DIR
                               /\ Len(e.path) > Len(base) /\ IsPrefix(base, e.path)}
    IN  IF below = {} THEN 0
        ELSE Len((CHOOSE e \in below : \A f \in below : Len(f.path) <= Len(e.path)).path)
                 - Len(base)

\* C33: while list(basePath) runs it holds one directory slot for each level
\* it is enumerating and never more than MAX_DIRS: a directory is opened
\* when the slots held are those of the levels above it, every read and
\* close is of the slot of the innermost level (slot = level - 1 when no
\* slot was in use at the start).  Started with no slot in use on a
\* directory basePath, no engine call failing, list returns every entry
\* below basePath when the longest chain of nested directories below it has
\* at most MAX_DIRS - 1 directories, and throws a LittleFSError of code
\* LFS_ERR_NOMEM and returns nothing when a chain has MAX_DIRS or more.
C33_SlotPerLevel ==
    (last.op = "list" /\ \A i \in 0..(MAX_DIRS - 1) : ~Before.M.dir_in_use[i]) =>
        /\ \A j \in 1..Len(last.calls) :
               /\ HeldAfter(last.calls, j) <= MAX_DIRS
               /\ (last.calls[j].fn = "lfs_dir_open" /\ last.calls[j].ret = 0) =>
                      HeldAfter(last.calls, j) = Level(last.calls[j].arg, last.args[1])
               /\ last.calls[j].fn \in {"lfs_dir_read", "lfs_dir_close"} =>
                      last.calls[j].arg = <<HeldAfter(last.calls, j - 1) - 1>>
        /\ (last.k = NoFault /\ Before.M.mounted
              /\ IsDirAt(Before.M.lfs.tree, Components(last.args[1]))) =>
               LET base == Components(last.args[1])
                   tree == Before.M.lfs.tree
               IN  /\ Nested(tree, base) <= MAX_DIRS - 1 =>
                          /\ ~last.err.thrown
                          /\ {Components(last.value[i].path) : i \in 1..Len(last.value)}
                                 = {e.path : e \in {f \in tree : Len(f.path) > Len(base)
                                                         /\ IsPrefix(base, f.path)}}
                          /\ Len(last.value)
                                 = Cardinality({f \in tree : Len(f.path) > Len(base)
                                                     /\ IsPrefix(base, f.path)})
                   /\ Nested(tree, base) >= MAX_DIRS =>
                          /\ last.err.thrown /\ last.err.code = LFS_ERR_NOMEM
                          /\ last.value = <<>>
                          /\ HeldAfter(last.calls, Len(last.calls)) = 0
                          /\ \E j \in 1..Len(last.calls) :
                                 HeldAfter(last.calls, j) = MAX_DIRS

\* C33: list("/d") returned the seven nested directories below "/d" and
\* "/d/s" beside them, having held all MAX_DIRS slots at the deepest level
C33_SevenBelowListed ==
    /\ last.op = "list" /\ last.args[1] = P_d /\ last.k = NoFault
    /\ ~last.err.thrown /\ Len(last.value) = MAX_DIRS
    /\ Nested(Before.M.lfs.tree, Components(P_d)) = MAX_DIRS - 1
    /\ \E j \in 1..Len(last.calls) : HeldAfter(last.calls, j) = MAX_DIRS
    /\ \E j \in 1..Len(last.calls) :
           /\ last.calls[j].fn = "lfs_dir_open" /\ last.calls[j].arg = P_ds
           /\ HeldAfter(last.calls, j) = 2

\* C34: delete(path, {recursive: true}) whose listing of path throws makes
\* no remove at all: the listing's LittleFSError is what delete throws, the
\* engine's remove is never called, and the tree and the store are as they
\* were.  The listing throws LFS_ERR_NOTDIR when path is a regular file, and
\* LFS_ERR_NOMEM when a chain of MAX_DIRS or more nested directories lies
\* below the directory path (no slot in use, no engine call failing).
C34_FailedListingRemovesNothing ==
    (last.op = "delete" /\ last.args[2]) =>
        /\ list(Before, last.args[1]).err.thrown =>
               /\ last.err = list(Before, last.args[1]).err
               /\ last.err.context = <<"open directory", last.err.context[2]>>
               /\ \A j \in 1..Len(last.calls) : last.calls[j].fn # "lfs_remove"
               /\ lfs = Before.M.lfs
               /\ ram_storage = Before.M.ram_storage
               /\ last.value = <<>>
        /\ (last.k = NoFault /\ Before.M.mounted
              /\ \A i \in 0..(MAX_DIRS - 1) : ~Before.M.dir_in_use[i]) =>
               LET comps == Components(last.args[1])
                   tree == Before.M.lfs.tree
               IN  /\ (Exists(tree, comps) /\ Lookup(tree, comps).type = LFS_TYPE_REG) =>
                          /\ last.err.thrown /\ last.err.code = LFS_ERR_NOTDIR
                          /\ last.err.context = <<"open directory", last.args[1]>>
                          /\ Occurrences(last.calls, "lfs_remove") = 0
                          /\ lfs.tree = tree
                   /\ (IsDirAt(tree, comps) /\ Nested(tree, comps) >= MAX_DIRS) =>
                          /\ last.err.thrown /\ last.err.code = LFS_ERR_NOMEM
                          /\ last.err.context[1] = "open directory"
                          /\ Occurrences(last.calls, "lfs_remove") = 0
                          /\ lfs.tree = tree

\* C34: a recursive delete of the regular file "/a" threw the listing's
\* LFS_ERR_NOTDIR and the file is still there
C34_FileKept ==
    /\ last.op = "delete" /\ last.args = <<P_a, TRUE>> /\ last.k = NoFault
    /\ last.err.thrown /\ last.err.code = LFS_ERR_NOTDIR
    /\ Exists(lfs.tree, Components(P_a))
    /\ Occurrences(last.calls, "lfs_remove") = 0

\* C34: a recursive delete of "/" above the chain of MAX_DIRS directories
\* threw the listing's LFS_ERR_NOMEM and the whole chain is still there
C34_DeepTreeKept ==
    /\ last.op = "delete" /\ last.args = <<P_root, TRUE>> /\ last.k = NoFault
    /\ last.err.thrown /\ last.err.code = LFS_ERR_NOMEM
    /\ Exists(lfs.tree, Components(Deep(MAX_DIRS)))
    /\ lfs.tree = Before.M.lfs.tree
    /\ Occurrences(last.calls, "lfs_remove") = 0

====
